---- MODULE Spec2Model ----
(***************************************************************************)
(* A model of ubv_transcribe's chunked processing pipeline:                *)
(*   - transcript_merger.py : chunk identifiers, the marker scan of a      *)
(*     daily document, the atomic append (temp file + rename), the merge;  *)
(*   - download_scheduler.py: the hourly chunk planner, the retrying       *)
(*     chunk processor and the sequential scheduler.                       *)
(*                                                                         *)
(* Text is modelled as a sequence of tokens.  A token is a string; the     *)
(* tokens " " and "\n" are the white space str.strip() removes and "\n"    *)
(* is the line break `for line in f` splits at.  A datetime is a number of *)
(* ticks of half an hour since midnight of day 0.                          *)
(***************************************************************************)
EXTENDS Integers, Sequences, FiniteSets, TLC

VARIABLES
    docs,      \* the transcripts directory: daily document path -> content
    unreadable_docs, \* the daily documents whose reads fail with an I/O error
    tmp,       \* the temp file of the append in progress
    orphans,   \* temp files left behind by terminated processes
    m,         \* the frame of the merge_transcript_chunk call in progress
    calls,     \* merge_transcript_chunk calls made so far (SpecMerge)
    faults,    \* I/O errors injected so far
    crashes,   \* process terminations so far
    pl,        \* the call of generate_hourly_chunks (SpecChunks)
    fd,        \* the call of discover_footage_range (SpecDiscover)
    r,         \* the frame of download_footage_sequential
    d,         \* the frame of the download_with_retry call in progress
    h,         \* what an observer of the runs has recorded
    disk       \* the intermediate artifacts on disk: video, audio, transcript files

vars ==
    <<docs, unreadable_docs, tmp, orphans, m, calls, faults, crashes, pl, fd, r, d,
      h, disk>>

---------------------------------------------------------------------------
(* Time.                                                                   *)

\* timedelta(hours=1), in ticks
Hour == 2
\* a calendar day, in hours: what strftime('%Y-%m-%d') changes at
HoursPerDay == 24
DayTicks == HoursPerDay * Hour

\* start_dt.strftime('%Y-%m-%d')
DateStr(t) == "D" \o ToString(t \div DayTicks)
\* start_dt.strftime('%H:%M:%S')
TimeStr(t) == "T" \o ToString(t % DayTicks)

Min(a, b) == IF a < b THEN a ELSE b

---------------------------------------------------------------------------
(* download_scheduler.py: generate_hourly_chunks                           *)

\* HourlyLoop with timedelta(hours=2) for timedelta(hours=1).
RECURSIVE HourlyLoopTwoHours(_, _, _)
HourlyLoopTwoHours(current, end_date, chunks) ==
    IF current < end_date
    THEN LET chunk_end == Min(current + 2 * Hour, end_date)
         IN  HourlyLoopTwoHours(chunk_end, end_date,
                                Append(chunks, <<current, chunk_end>>))
    ELSE chunks

\* HourlyLoop without the min(): every chunk ends a full hour after its start.
RECURSIVE HourlyLoopNoClamp(_, _, _)
HourlyLoopNoClamp(current, end_date, chunks) ==
    IF current < end_date
    THEN HourlyLoopNoClamp(current + Hour, end_date,
                           Append(chunks, <<current, current + Hour>>))
    ELSE chunks

\* The while loop: `chunks` so far, `current` the start of the next chunk.
RECURSIVE HourlyLoop(_, _, _)
HourlyLoop(current, end_date, chunks) ==
    IF current < end_date
    THEN LET chunk_end == Min(current + Hour, end_date)
         IN  HourlyLoop(chunk_end, end_date, Append(chunks, <<current, chunk_end>>))
    ELSE chunks

\* generate_hourly_chunks that puts a reversed range in order instead of
\* returning nothing for it.
generate_hourly_chunks_reordering(start_date, end_date) ==
    IF start_date = end_date THEN <<>>
    ELSE HourlyLoop(Min(start_date, end_date),
                    IF start_date < end_date THEN end_date ELSE start_date, <<>>)

generate_hourly_chunks(start_date, end_date) ==
    IF start_date >= end_date THEN <<>>
    ELSE HourlyLoop(start_date, end_date, <<>>)

---------------------------------------------------------------------------
(* Strings.                                                                *)

WS == {" ", "\n"}
PREFIX == "<!-- CHUNK:"
SUFFIX == "-->"

RECURSIVE LStrip(_)
LStrip(s) == IF s # <<>> /\ Head(s) \in WS THEN LStrip(Tail(s)) ELSE s

RECURSIVE RStrip(_)
RStrip(s) ==
    IF s # <<>> /\ s[Len(s)] \in WS THEN RStrip(SubSeq(s, 1, Len(s) - 1)) ELSE s

\* str.strip()
Strip(s) == RStrip(LStrip(s))

\* The lines `for line in f` yields, each with its line break removed; a last
\* fragment without a line break is a line too.
RECURSIVE SplitLines(_, _)
SplitLines(s, cur) ==
    IF s = <<>> THEN (IF cur = <<>> THEN <<>> ELSE <<cur>>)
    ELSE IF Head(s) = "\n" THEN <<cur>> \o SplitLines(Tail(s), <<>>)
    ELSE SplitLines(Tail(s), Append(cur, Head(s)))

Lines(s) == SplitLines(s, <<>>)

\* line.strip().startswith('<!-- CHUNK:') and line.strip().endswith('-->')
IsMarkerLine(line) ==
    LET t == Strip(line)
    IN  Len(t) >= 2 /\ t[1] = PREFIX /\ t[Len(t)] = SUFFIX

\* line.strip().removeprefix('<!-- CHUNK:').removesuffix('-->').strip()
ParseMarker(line) ==
    LET t == Strip(line)
    IN  Strip(SubSeq(t, 2, Len(t) - 1))

---------------------------------------------------------------------------
(* transcript_merger.py                                                    *)

get_chunk_identifier(camera_name, start_dt) ==
    camera_name \o <<"_", DateStr(start_dt), "_", TimeStr(start_dt)>>

\* get_daily_transcript_path without the date in the file name: one document
\* per camera.
get_daily_transcript_path_without_date(camera_name, date) ==
    <<"_">> \o camera_name \o <<".md">>

\* <transcripts_dir>/<year>/<YYYY-MM-DD>_<camera_name>.md
get_daily_transcript_path(camera_name, date) ==
    <<DateStr(date), "_">> \o camera_name \o <<".md">>

\* The identifiers of the marker lines of a document's content.
MarkersOf(content) ==
    LET ls == Lines(content)
    IN  {ParseMarker(ls[i]) : i \in {j \in 1..Len(ls) : IsMarkerLine(ls[j])}}

\* load_processed_chunks with an except block that returns what was
\* collected before the error.
load_processed_chunks_keeping_collected(transcript_path) ==
    IF transcript_path \notin DOMAIN docs THEN {}
    ELSE MarkersOf(docs[transcript_path])

load_processed_chunks(transcript_path) ==
    IF transcript_path \notin DOMAIN docs THEN {}
    ELSE IF transcript_path \in unreadable_docs THEN {}
    ELSE MarkersOf(docs[transcript_path])

is_chunk_already_processed(camera_name, start_dt) ==
    get_chunk_identifier(camera_name, start_dt)
        \in load_processed_chunks(get_daily_transcript_path(camera_name, start_dt))

\* The header of a new document: three f.write calls.
HeaderWrites(camera_name, start_dt) ==
    << <<"#", " ", DateStr(start_dt), " ", "-", " ">> \o camera_name \o <<"\n", "\n">>,
       <<"Transcript for camera **">> \o camera_name
           \o <<"** on ", DateStr(start_dt), ".", "\n", "\n">>,
       <<"---", "\n", "\n">> >>

MarkerWrite(chunk_id) == <<PREFIX, " ">> \o chunk_id \o <<" ", SUFFIX, "\n", "\n">>

\* The chunk section: five f.write calls.
SectionWrites(chunk_id, start_dt, end_dt, transcript_text) ==
    << MarkerWrite(chunk_id),
       <<"##", " ", TimeStr(start_dt), " ", "-", " ", TimeStr(end_dt), "\n", "\n">>,
       Strip(transcript_text),
       <<"\n", "\n">>,
       <<"---", "\n", "\n">> >>

\* AppendWrites without `if not file_exists`: a header with every section.
AppendWritesAlwaysHeader(file_exists, chunk_id, camera_name, start_dt, end_dt, transcript_text) ==
    HeaderWrites(camera_name, start_dt)
        \o SectionWrites(chunk_id, start_dt, end_dt, transcript_text)

\* Everything append_transcript_chunk writes after the copy, call by call.
AppendWrites(file_exists, chunk_id, camera_name, start_dt, end_dt, transcript_text) ==
    (IF file_exists THEN <<>> ELSE HeaderWrites(camera_name, start_dt))
        \o SectionWrites(chunk_id, start_dt, end_dt, transcript_text)

\* The marker line append_transcript_chunk writes for an identifier.
MarkerLineOf(chunk_id) == <<PREFIX, " ">> \o chunk_id \o <<" ", SUFFIX>>

\* How many lines of a content are the marker line of an identifier.
MarkerLineCount(content, chunk_id) ==
    LET ls == Lines(content)
    IN  Cardinality({i \in 1..Len(ls) : ls[i] = MarkerLineOf(chunk_id)})

RECURSIVE Flatten(_)
Flatten(ws) == IF ws = <<>> THEN <<>> ELSE Head(ws) \o Flatten(Tail(ws))

---------------------------------------------------------------------------
(* The bounds of the model.                                                *)

\* merge_transcript_chunk calls of one behaviour of SpecMerge
MaxCalls == 2
\* injected I/O errors of one behaviour
MaxFaults == 1
\* process terminations of one behaviour
MaxCrashes == 1
\* tokens one read of shutil.copyfileobj moves
CopyBuf == 32

CameraNames == {<<"a">>, <<" ", "a">>}
StartTimes == {DayTicks - 2 * Hour, DayTicks - Hour, DayTicks}
MarkerText ==
    <<"hi", "\n", PREFIX, " ">> \o get_chunk_identifier(<<"a">>, DayTicks - Hour)
        \o <<" ", SUFFIX>>
Texts == {<<"hi">>, <<" ", "hi", "\n">>, MarkerText}
\* The transcript file handed to merge_transcript_chunk: missing, unreadable,
\* or readable with a text.
TranscriptFiles ==
    {[status |-> "missing", text |-> <<>>], [status |-> "unreadable", text |-> <<>>]}
        \cup {[status |-> "ok", text |-> t] : t \in Texts}

---------------------------------------------------------------------------
(* The merge process: merge_transcript_chunk and append_transcript_chunk,  *)
(* one action per step.                                                    *)

NoTmp == [exists |-> FALSE, data |-> <<>>]

\* What is at a path: absent, or a file with its content.
FileAt(path) ==
    IF path \in DOMAIN docs THEN [exists |-> TRUE, data |-> docs[path]]
    ELSE [exists |-> FALSE, data |-> <<>>]

IdleFrame ==
    [pc |-> "idle", camera_name |-> <<>>, start_dt |-> 0, end_dt |-> 0,
     text |-> <<>>, chunk_id |-> <<>>, path |-> <<>>, file_exists |-> FALSE,
     pos |-> 0, wi |-> 0, ret |-> "none", fail |-> "none", before |-> NoTmp,
     transcript_file |-> "none"]

\* MergeStart without the existence check of the transcript file: a missing
\* file is merged as an empty transcript.
MergeStartNoFileCheck(camera_name, start_dt, end_dt, file) ==
    LET chunk_id == get_chunk_identifier(camera_name, start_dt)
        path == get_daily_transcript_path(camera_name, start_dt)
        frame == [IdleFrame EXCEPT !.camera_name = camera_name,
                     !.start_dt = start_dt, !.end_dt = end_dt,
                     !.chunk_id = chunk_id, !.path = path,
                     !.before = FileAt(path), !.transcript_file = file.status]
    IN  IF chunk_id \in load_processed_chunks(path)
            THEN [frame EXCEPT !.pc = "returned", !.ret = "false"]
        ELSE IF file.status = "unreadable"
            THEN [frame EXCEPT !.pc = "returned", !.ret = "raised", !.fail = "read"]
        ELSE [frame EXCEPT !.pc = "mkstemp", !.text = file.text,
                 !.file_exists = path \in DOMAIN docs]

\* merge_transcript_chunk up to the call of append_transcript_chunk, and
\* append_transcript_chunk up to its try block: the frame after these lines.
MergeStart(camera_name, start_dt, end_dt, file) ==
    LET chunk_id == get_chunk_identifier(camera_name, start_dt)
        path == get_daily_transcript_path(camera_name, start_dt)
        frame == [IdleFrame EXCEPT !.camera_name = camera_name,
                     !.start_dt = start_dt, !.end_dt = end_dt,
                     !.chunk_id = chunk_id, !.path = path,
                     !.before = FileAt(path), !.transcript_file = file.status]
    IN  IF file.status = "missing"
            THEN [frame EXCEPT !.pc = "returned", !.ret = "raised", !.fail = "missing"]
        ELSE IF chunk_id \in load_processed_chunks(path)
            THEN [frame EXCEPT !.pc = "returned", !.ret = "false"]
        ELSE IF file.status = "unreadable"
            THEN [frame EXCEPT !.pc = "returned", !.ret = "raised", !.fail = "read"]
        ELSE [frame EXCEPT !.pc = "mkstemp", !.text = file.text,
                 !.file_exists = path \in DOMAIN docs]

\* AppendRaises with the os.remove of the except block left out.
AppendRaisesNoCleanup ==
    /\ faults < MaxFaults
    /\ faults' = faults + 1
    /\ m' = [m EXCEPT !.pc = "returned", !.ret = "raised", !.fail = m.pc]
    /\ UNCHANGED <<docs, tmp, orphans, calls, crashes, pl, unreadable_docs, fd, r, d, h, disk>>

\* A step of the try block raises.  The except block of
\* append_transcript_chunk: close, remove the temp file, re-raise;
\* merge_transcript_chunk lets the exception through.
AppendRaises ==
    /\ faults < MaxFaults
    /\ faults' = faults + 1
    /\ tmp' = NoTmp
    /\ m' = [m EXCEPT !.pc = "returned", !.ret = "raised", !.fail = m.pc]
    /\ UNCHANGED <<docs, orphans, calls, crashes, pl, unreadable_docs, fd, r, d, h, disk>>

Mkstemp ==
    /\ m.pc = "mkstemp"
    /\ tmp' = [exists |-> TRUE, data |-> <<>>]
    /\ m' = [m EXCEPT !.pc = IF m.file_exists THEN "copy" ELSE "write"]
    /\ UNCHANGED <<docs, orphans, calls, faults, crashes, pl, unreadable_docs, fd, r, d, h, disk>>

MkstempFails ==
    /\ m.pc = "mkstemp"
    /\ AppendRaises

\* One read and write of shutil.copyfileobj.
CopyStep ==
    /\ m.pc = "copy"
    /\ m.path \notin unreadable_docs
    /\ LET src == docs[m.path]
           n == IF Len(src) - m.pos < CopyBuf THEN Len(src) - m.pos ELSE CopyBuf
       IN  /\ tmp' = [tmp EXCEPT !.data = @ \o SubSeq(src, m.pos + 1, m.pos + n)]
           /\ m' = [m EXCEPT !.pos = @ + n,
                       !.pc = IF m.pos + n = Len(src) THEN "write" ELSE "copy"]
    /\ UNCHANGED <<docs, orphans, calls, faults, crashes, pl, unreadable_docs, fd, r, d, h, disk>>

CopyFails ==
    /\ m.pc = "copy"
    /\ AppendRaises

\* The read of the existing document fails in the copy: the except block of
\* append_transcript_chunk, as in AppendRaises.
CopyReadFails ==
    /\ m.pc = "copy"
    /\ m.path \in unreadable_docs
    /\ tmp' = NoTmp
    /\ m' = [m EXCEPT !.pc = "returned", !.ret = "raised", !.fail = m.pc]
    /\ UNCHANGED <<docs, unreadable_docs, orphans, calls, faults, crashes, pl, fd, r, d, h, disk>>

\* WriteStep putting what it writes in front of what the temp file holds.
WriteStepPrepends ==
    /\ m.pc = "write"
    /\ LET ws == AppendWrites(m.file_exists, m.chunk_id, m.camera_name,
                              m.start_dt, m.end_dt, m.text)
       IN  /\ tmp' = [tmp EXCEPT !.data = ws[m.wi + 1] \o @]
           /\ m' = [m EXCEPT !.wi = @ + 1,
                       !.pc = IF m.wi + 1 = Len(ws) THEN "replace" ELSE "write"]
    /\ UNCHANGED <<docs, orphans, calls, faults, crashes, pl, unreadable_docs, fd, r, d, h, disk>>

\* WriteStep writing to the document itself instead of the temp file.
WriteStepInPlace ==
    /\ m.pc = "write"
    /\ LET ws == AppendWrites(m.file_exists, m.chunk_id, m.camera_name,
                              m.start_dt, m.end_dt, m.text)
       IN  /\ docs' = [p \in DOMAIN docs \cup {m.path} |->
                          (IF p \in DOMAIN docs THEN docs[p] ELSE <<>>)
                              \o (IF p = m.path THEN ws[m.wi + 1] ELSE <<>>)]
           /\ tmp' = [tmp EXCEPT !.data = @ \o ws[m.wi + 1]]
           /\ m' = [m EXCEPT !.wi = @ + 1,
                       !.pc = IF m.wi + 1 = Len(ws) THEN "replace" ELSE "write"]
    /\ UNCHANGED <<orphans, calls, faults, crashes, pl, unreadable_docs, fd, r, d, h, disk>>

\* One f.write of the `with open(temp_path, 'a')` block.
WriteStep ==
    /\ m.pc = "write"
    /\ LET ws == AppendWrites(m.file_exists, m.chunk_id, m.camera_name,
                              m.start_dt, m.end_dt, m.text)
       IN  /\ tmp' = [tmp EXCEPT !.data = @ \o ws[m.wi + 1]]
           /\ m' = [m EXCEPT !.wi = @ + 1,
                       !.pc = IF m.wi + 1 = Len(ws) THEN "replace" ELSE "write"]
    /\ UNCHANGED <<docs, orphans, calls, faults, crashes, pl, unreadable_docs, fd, r, d, h, disk>>

WriteFails ==
    /\ m.pc = "write"
    /\ AppendRaises

\* os.replace(temp_path, transcript_path), then merge_transcript_chunk returns True.
Replace ==
    /\ m.pc = "replace"
    /\ docs' = [p \in DOMAIN docs \cup {m.path} |->
                   IF p = m.path THEN tmp.data ELSE docs[p]]
    /\ tmp' = NoTmp
    /\ m' = [m EXCEPT !.pc = "returned", !.ret = "true"]
    /\ UNCHANGED <<orphans, calls, faults, crashes, pl, unreadable_docs, fd, r, d, h, disk>>

ReplaceFails ==
    /\ m.pc = "replace"
    /\ AppendRaises

\* The process is terminated inside a merge: nothing of it runs any more,
\* its files stay as they are.
MergeKilled ==
    /\ m.pc \in {"mkstemp", "copy", "write", "replace"}
    /\ crashes < MaxCrashes
    /\ crashes' = crashes + 1
    /\ orphans' = orphans + (IF tmp.exists THEN 1 ELSE 0)
    /\ tmp' = NoTmp
    /\ m' = [m EXCEPT !.pc = "killed"]
    /\ UNCHANGED <<docs, calls, faults, pl, unreadable_docs, fd, r, d, h, disk>>

MergeStep ==
    \/ Mkstemp
    \/ MkstempFails
    \/ CopyStep
    \/ CopyFails
    \/ WriteStep
    \/ WriteFails
    \/ Replace
    \/ ReplaceFails

---------------------------------------------------------------------------
(* SpecMerge: any sequence of merge_transcript_chunk calls on a            *)
(* transcripts directory that starts empty.                                *)

NoPlan == [pc |-> "off", start_date |-> 0, end_date |-> 0, chunks |-> <<>>]
NoRun ==
    [pc |-> "off", cameras |-> <<>>, start_date |-> 0, end_date |-> 0,
     has_dir |-> FALSE, max_retries |-> 0, initial_backoff |-> 0,
     max_backoff |-> 0, chunks |-> <<>>, ci |-> 1, ki |-> 1,
     total_chunks |-> 0, successful_chunks |-> 0, failed_chunks |-> 0,
     whisper_bin |-> "present", model_path |-> "present"]
NoCamera == [id |-> "", name |-> <<>>]
NoDownload ==
    [pc |-> "off", camera |-> NoCamera, start_dt |-> 0, end_dt |-> 0,
     attempt |-> 0, backoff |-> 0, wait |-> 0, result |-> "none", text |-> <<>>,
     fetches |-> 0, converts |-> 0, transcribes |-> 0, merges |-> 0,
     sleeps |-> <<>>, errors |-> <<>>, ledger |-> FALSE, marked |-> FALSE,
     steps |-> <<>>]
NoHistory ==
    [run |-> 0, docs0 |-> <<>>, fetch_calls |-> 0, convert_calls |-> 0,
     transcribe_calls |-> 0, merged |-> 0, failures |-> 0,
     prev_all_merged |-> FALSE, after_kill |-> FALSE,
     order |-> <<>>, results |-> <<>>]

\* None, where a datetime is expected
NoDate == -1
NoDiscovery ==
    [pc |-> "off", cameras |-> <<>>, max_days_back |-> 0, current_date |-> NoDate,
     latest_date |-> NoDate, earliest_date |-> NoDate, days_checked |-> 0,
     ci |-> 1, any_footage_found |-> FALSE, per_camera_ranges |-> <<>>,
     days_with_footage |-> 0, warned |-> FALSE, dates |-> <<>>, reports |-> <<>>,
     listing |-> [status |-> "none", recording_start |-> 0], errors |-> 0]

InitMerge ==
    /\ docs = <<>>
    /\ unreadable_docs = {}
    /\ tmp = NoTmp
    /\ orphans = 0
    /\ m = IdleFrame
    /\ calls = 0
    /\ faults = 0
    /\ crashes = 0
    /\ pl = NoPlan
    /\ fd = NoDiscovery
    /\ r = NoRun
    /\ d = NoDownload
    /\ h = NoHistory
    /\ disk = {}

CallMerge ==
    /\ m.pc \in {"idle", "returned", "killed"}
    /\ calls < MaxCalls
    /\ calls' = calls + 1
    /\ \E camera_name \in CameraNames, start_dt \in StartTimes,
          len \in {1, Hour}, file \in TranscriptFiles :
            m' = MergeStart(camera_name, start_dt, start_dt + len, file)
    /\ UNCHANGED <<docs, tmp, orphans, faults, crashes, pl, unreadable_docs, fd, r, d, h, disk>>

NextMerge ==
    \/ CallMerge
    \/ MergeStep
    \/ MergeKilled

SpecMerge == InitMerge /\ [][NextMerge]_vars

---------------------------------------------------------------------------
(* SpecChunks: generate_hourly_chunks on every range of PlanTimes.         *)

\* the latest datetime of a planned range, in ticks
MaxPlanTime == 9
PlanTimes == 0..MaxPlanTime

InitChunks ==
    /\ docs = <<>>
    /\ unreadable_docs = {}
    /\ tmp = NoTmp
    /\ orphans = 0
    /\ m = IdleFrame
    /\ calls = 0
    /\ faults = 0
    /\ crashes = 0
    /\ \E s \in PlanTimes, e \in PlanTimes :
          pl = [pc |-> "called", start_date |-> s, end_date |-> e, chunks |-> <<>>]
    /\ fd = NoDiscovery
    /\ r = NoRun
    /\ d = NoDownload
    /\ h = NoHistory
    /\ disk = {}

PlanReturn ==
    /\ pl.pc = "called"
    /\ pl' = [pl EXCEPT !.pc = "returned",
                 !.chunks = generate_hourly_chunks(pl.start_date, pl.end_date)]
    /\ UNCHANGED <<docs, tmp, orphans, m, calls, faults, crashes, unreadable_docs, fd, r, d, h, disk>>

NextChunks == PlanReturn

SpecChunks == InitChunks /\ [][NextChunks]_vars

---------------------------------------------------------------------------
(* download_scheduler.py: download_with_retry and                          *)
(* download_footage_sequential, one action per step.                       *)

\* runs of download_footage_sequential in one behaviour of SpecRun
MaxRuns == 2

\* RATE_LIMIT_KEYWORDS, as the error texts of the model that contain one
RateLimitMessages == {"HTTP 429 Too Many Requests"}
ErrorMessages == {"connection reset"} \cup RateLimitMessages

\* any(keyword in str(e).lower() for keyword in RATE_LIMIT_KEYWORDS)
IsRateLimit(msg) == msg \in RateLimitMessages

\* The FileNotFoundError texts of transcoder.run_whisper for a missing
\* whisper-cli binary and a missing model file.
StructuralMessages == {"whisper-cli binary not found", "Whisper model not found"}

CamA == [id |-> "c1", name |-> <<"a">>]
CamB == [id |-> "c2", name |-> <<"b">>]
CamA2 == [id |-> "c2", name |-> <<"a">>]
CamS == [id |-> "c3", name |-> <<" ", "a">>]
\* The camera lists of the runs: one camera, two cameras, two cameras of
\* one name, a camera whose name starts with a blank.
CameraLists == {<<CamA>>, <<CamA, CamB>>, <<CamA, CamA2>>, <<CamS>>}
\* The ranges of the runs: two chunks of one day; a full chunk and a short
\* one on the next day; one chunk; a reversed range.
TwoChunks == <<DayTicks - 2 * Hour, DayTicks>>
AcrossDays == <<DayTicks - Hour, DayTicks + 1>>
OneChunk == <<DayTicks - Hour, DayTicks>>
Reversed == <<DayTicks, DayTicks - Hour>>
Ranges == {TwoChunks, AcrossDays, OneChunk, Reversed}
\* The runs with a transcripts directory: of at most two (camera, chunk)
\* pairs.
DirRuns ==
    {<<cameras, range>> \in CameraLists \X Ranges :
        Len(cameras) * Len(generate_hourly_chunks(range[1], range[2])) <= 2}
\* What the transcriber writes for a chunk: a plain text and, in the runs of
\* camera "a" alone, a text with a line that reads as a marker.
RunTexts(cameras) == IF cameras = <<CamA>> THEN {<<"hi">>, MarkerText} ELSE {<<"hi">>}
\* The arguments of a run: every camera list on every range without a
\* transcripts directory, and DirRuns with one.
Scenarios ==
    {[cameras |-> cameras, range |-> range, has_dir |-> FALSE] :
        cameras \in CameraLists, range \in Ranges}
    \cup {[cameras |-> x[1], range |-> x[2], has_dir |-> TRUE] : x \in DirRuns}
RetryLimits == {0, 1}
Backoffs == {[initial |-> 1, max |-> 3]}

\* The files of a chunk: the video download_chunk leaves in out_path, the
\* audio transcode_to_wav writes under the video's stem, the transcript
\* run_whisper writes at output_base + ".txt".
VideoFile(camera, start_dt) == <<"mp4", camera.name, start_dt>>
WavFile(video_path) == <<"wav", video_path[2], video_path[3]>>
TranscriptFile(wav_path) == <<"txt", wav_path[2], wav_path[3]>>

\* download_with_retry without the idempotency check.
DownloadStartNoGate(camera, chunk, has_dir, initial_backoff) ==
    [NoDownload EXCEPT !.pc = "fetch", !.camera = camera, !.start_dt = chunk[1],
        !.end_dt = chunk[2], !.backoff = initial_backoff]

\* DownloadStart that takes the existence of the daily document for the
\* chunk being processed.
DownloadStartSkipsIfDocumentExists(camera, chunk, has_dir, initial_backoff) ==
    LET frame == [NoDownload EXCEPT !.camera = camera, !.start_dt = chunk[1],
                     !.end_dt = chunk[2]]
    IN  IF has_dir /\ get_daily_transcript_path(camera.name, chunk[1]) \in DOMAIN docs
        THEN [frame EXCEPT !.pc = "returned", !.result = "skipped"]
        ELSE [frame EXCEPT !.pc = "fetch", !.backoff = initial_backoff]

\* download_with_retry up to its attempt loop: the idempotency check.
DownloadStart(camera, chunk, has_dir, initial_backoff) ==
    LET frame == [NoDownload EXCEPT !.camera = camera, !.start_dt = chunk[1],
                     !.end_dt = chunk[2]]
    IN  IF has_dir /\ is_chunk_already_processed(camera.name, chunk[1])
        THEN [frame EXCEPT !.pc = "returned", !.result = "skipped"]
        ELSE [frame EXCEPT !.pc = "fetch", !.backoff = initial_backoff]

\* OnError with `attempt <= max_retries`: a sleep after the last attempt too.
OnErrorSleepsAlways(msg) ==
    [d EXCEPT !.pc = "sleep", !.errors = Append(@, msg),
        !.wait = IF IsRateLimit(msg) THEN Min(d.backoff * 2, r.max_backoff)
                 ELSE Min(d.backoff, r.max_backoff)]

\* OnError that waits the normal backoff after a rate-limit error too.
OnErrorNoRateLimit(msg) ==
    IF d.attempt < r.max_retries
    THEN [d EXCEPT !.pc = "sleep", !.errors = Append(@, msg),
             !.wait = Min(d.backoff, r.max_backoff)]
    ELSE [d EXCEPT !.pc = "returned", !.result = "None", !.errors = Append(@, msg)]

\* OnError without the min() of the rate-limit branch.
OnErrorUncappedRateLimit(msg) ==
    IF d.attempt < r.max_retries
    THEN [d EXCEPT !.pc = "sleep", !.errors = Append(@, msg),
             !.wait = IF IsRateLimit(msg) THEN d.backoff * 2
                      ELSE Min(d.backoff, r.max_backoff)]
    ELSE [d EXCEPT !.pc = "returned", !.result = "None", !.errors = Append(@, msg)]

\* The except block of the attempt loop, for an error with text msg.
OnError(msg) ==
    IF d.attempt < r.max_retries
    THEN [d EXCEPT !.pc = "sleep", !.errors = Append(@, msg),
             !.wait = IF IsRateLimit(msg) THEN Min(d.backoff * 2, r.max_backoff)
                      ELSE Min(d.backoff, r.max_backoff)]
    ELSE [d EXCEPT !.pc = "returned", !.result = "None", !.errors = Append(@, msg)]

\* A step of the attempt raises: nothing but the frame changes.  The errors
\* of a behaviour are at most as many as exhaust the attempts of MaxFaults
\* chunks.
StepRaises ==
    /\ faults < MaxFaults * (r.max_retries + 1)
    /\ faults' = faults + 1
    /\ UNCHANGED <<docs, tmp, orphans, m, calls, crashes, pl, unreadable_docs, fd, r, disk>>

\* RunBegin with `len(cameras) * (len(chunks) or 1)` for total_chunks.
RunBeginCountsEmptyRange ==
    /\ r.pc \in {"off", "done", "killed"}
    /\ h.run < MaxRuns
    /\ LET chunks == generate_hourly_chunks(r.start_date, r.end_date)
       IN  r' = [r EXCEPT !.pc = "loop", !.chunks = chunks, !.ci = 1, !.ki = 1,
                    !.total_chunks =
                        Len(r.cameras) * (IF chunks = <<>> THEN 1 ELSE Len(chunks)),
                    !.successful_chunks = 0, !.failed_chunks = 0]
    /\ h' = [NoHistory EXCEPT !.run = h.run + 1, !.docs0 = docs,
                !.prev_all_merged =
                    r.pc = "done" /\ r.total_chunks > 0 /\ h.merged = r.total_chunks,
                !.after_kill = (r.pc = "killed")]
    /\ UNCHANGED <<docs, tmp, orphans, m, calls, faults, crashes, pl, unreadable_docs, fd, d, disk>>

\* download_footage_sequential up to its loops; a further run starts when
\* the one before has returned or was terminated.
RunBegin ==
    /\ r.pc \in {"off", "done", "killed"}
    /\ h.run < MaxRuns
    /\ LET chunks == generate_hourly_chunks(r.start_date, r.end_date)
       IN  r' = [r EXCEPT !.pc = "loop", !.chunks = chunks, !.ci = 1, !.ki = 1,
                    !.total_chunks = Len(r.cameras) * Len(chunks),
                    !.successful_chunks = 0, !.failed_chunks = 0]
    /\ h' = [NoHistory EXCEPT !.run = h.run + 1, !.docs0 = docs,
                !.prev_all_merged =
                    r.pc = "done" /\ r.total_chunks > 0 /\ h.merged = r.total_chunks,
                !.after_kill = (r.pc = "killed")]
    /\ UNCHANGED <<docs, tmp, orphans, m, calls, faults, crashes, pl, unreadable_docs, fd, d, disk>>

\* ChunkBegin that does not wait for a sleeping chunk: the next pair starts
\* while the one before is in its backoff sleep.
ChunkBeginDuringSleep ==
    /\ r.pc = "loop"
    /\ d.pc \in {"off", "sleep"}
    /\ r.ci <= Len(r.cameras)
    /\ r.ki + (IF d.pc = "sleep" THEN 1 ELSE 0) <= Len(r.chunks)
    /\ LET camera == r.cameras[r.ci]
           chunk == r.chunks[r.ki + (IF d.pc = "sleep" THEN 1 ELSE 0)]
           path == get_daily_transcript_path(camera.name, chunk[1])
       IN  /\ d' = [DownloadStart(camera, chunk, r.has_dir, r.initial_backoff) EXCEPT
                       !.ledger = r.has_dir
                                  /\ is_chunk_already_processed(camera.name, chunk[1]),
                       !.marked = MarkerLineCount(FileAt(path).data,
                                      get_chunk_identifier(camera.name, chunk[1])) > 0]
           /\ h' = [h EXCEPT !.order = Append(@, <<camera.id, chunk>>)]
    /\ UNCHANGED <<docs, tmp, orphans, m, calls, faults, crashes, pl, unreadable_docs, fd, r, disk>>

\* ChunkBegin with the chunks of a camera taken from the last to the first.
ChunkBeginReversed ==
    /\ r.pc = "loop"
    /\ d.pc = "off"
    /\ r.ci <= Len(r.cameras)
    /\ r.ki <= Len(r.chunks)
    /\ LET camera == r.cameras[r.ci]
           chunk == r.chunks[Len(r.chunks) + 1 - r.ki]
           path == get_daily_transcript_path(camera.name, chunk[1])
       IN  /\ d' = [DownloadStart(camera, chunk, r.has_dir, r.initial_backoff) EXCEPT
                       !.ledger = r.has_dir
                                  /\ is_chunk_already_processed(camera.name, chunk[1]),
                       !.marked = MarkerLineCount(FileAt(path).data,
                                      get_chunk_identifier(camera.name, chunk[1])) > 0]
           /\ h' = [h EXCEPT !.order = Append(@, <<camera.id, chunk>>)]
    /\ UNCHANGED <<docs, tmp, orphans, m, calls, faults, crashes, pl, unreadable_docs, fd, r, disk>>

\* The call of download_with_retry for the next (camera, chunk) pair.
ChunkBegin ==
    /\ r.pc = "loop"
    /\ d.pc = "off"
    /\ r.ci <= Len(r.cameras)
    /\ r.ki <= Len(r.chunks)
    /\ LET camera == r.cameras[r.ci]
           chunk == r.chunks[r.ki]
           path == get_daily_transcript_path(camera.name, chunk[1])
       IN  /\ d' = [DownloadStart(camera, chunk, r.has_dir, r.initial_backoff) EXCEPT
                       !.ledger = r.has_dir
                                  /\ is_chunk_already_processed(camera.name, chunk[1]),
                       !.marked = MarkerLineCount(FileAt(path).data,
                                      get_chunk_identifier(camera.name, chunk[1])) > 0]
           /\ h' = [h EXCEPT !.order = Append(@, <<camera.id, chunk>>)]
    /\ UNCHANGED <<docs, tmp, orphans, m, calls, faults, crashes, pl, unreadable_docs, fd, r, disk>>

\* downloader_adapter.download_chunk returns the video file.
FetchOk ==
    /\ d.pc = "fetch"
    /\ d' = [d EXCEPT !.pc = "convert", !.fetches = @ + 1,
                !.steps = Append(@, "fetch")]
    /\ disk' = disk \cup {VideoFile(d.camera, d.start_dt)}
    /\ h' = [h EXCEPT !.fetch_calls = @ + 1]
    /\ UNCHANGED <<docs, tmp, orphans, m, calls, faults, crashes, pl, unreadable_docs, fd, r>>

FetchFails ==
    /\ d.pc = "fetch"
    /\ \E msg \in ErrorMessages : d' = [OnError(msg) EXCEPT !.fetches = @ + 1, !.steps = <<>>]
    /\ h' = [h EXCEPT !.fetch_calls = @ + 1, !.failures = @ + 1]
    /\ StepRaises

\* transcoder.transcode_to_wav returns the audio file.
ConvertOk ==
    /\ d.pc = "convert"
    /\ d' = [d EXCEPT !.pc = "transcribe", !.converts = @ + 1,
                !.steps = Append(@, "convert")]
    /\ disk' = disk \cup {WavFile(VideoFile(d.camera, d.start_dt))}
    /\ h' = [h EXCEPT !.convert_calls = @ + 1]
    /\ UNCHANGED <<docs, tmp, orphans, m, calls, faults, crashes, pl, unreadable_docs, fd, r>>

ConvertFails ==
    /\ d.pc = "convert"
    /\ \E msg \in ErrorMessages :
          d' = [OnError(msg) EXCEPT !.converts = @ + 1, !.steps = <<>>]
    /\ h' = [h EXCEPT !.convert_calls = @ + 1, !.failures = @ + 1]
    /\ StepRaises

\* transcoder.run_whisper returns the transcript file; without a transcripts
\* directory download_with_retry returns its path.
TranscribeOk ==
    /\ d.pc = "transcribe"
    /\ r.whisper_bin = "present" /\ r.model_path = "present"
    /\ \E text \in RunTexts(r.cameras) :
          d' = [d EXCEPT !.transcribes = @ + 1, !.text = text,
                   !.steps = Append(@, "transcribe"),
                   !.pc = IF r.has_dir THEN "merge" ELSE "returned",
                   !.result = IF r.has_dir THEN "none" ELSE "path"]
    /\ disk' = disk \cup {TranscriptFile(WavFile(VideoFile(d.camera, d.start_dt)))}
    /\ h' = [h EXCEPT !.transcribe_calls = @ + 1]
    /\ UNCHANGED <<docs, tmp, orphans, m, calls, faults, crashes, pl, unreadable_docs, fd, r>>

TranscribeFails ==
    /\ d.pc = "transcribe"
    /\ r.whisper_bin = "present" /\ r.model_path = "present"
    /\ \E msg \in ErrorMessages :
          d' = [OnError(msg) EXCEPT !.transcribes = @ + 1, !.steps = <<>>]
    /\ h' = [h EXCEPT !.transcribe_calls = @ + 1, !.failures = @ + 1]
    /\ StepRaises

\* transcoder.run_whisper finds no whisper-cli binary or no model file and
\* raises FileNotFoundError before it runs anything; `except Exception` of
\* the transcribe step re-raises it into the except block of the attempt.
TranscribeNotInstalled ==
    /\ d.pc = "transcribe"
    /\ r.whisper_bin = "missing" \/ r.model_path = "missing"
    /\ d' = [OnError(IF r.whisper_bin = "missing"
                     THEN "whisper-cli binary not found"
                     ELSE "Whisper model not found")
                EXCEPT !.transcribes = @ + 1, !.steps = <<>>]
    /\ h' = [h EXCEPT !.transcribe_calls = @ + 1, !.failures = @ + 1]
    /\ UNCHANGED <<docs, tmp, orphans, m, calls, faults, crashes, pl, unreadable_docs, fd, r, disk>>

\* The call of transcript_merger.merge_transcript_chunk.
MergeCall ==
    /\ d.pc = "merge"
    /\ m' = MergeStart(d.camera.name, d.start_dt, d.end_dt,
                       [status |-> "ok", text |-> d.text])
    /\ d' = [d EXCEPT !.pc = "merging", !.merges = @ + 1]
    /\ UNCHANGED <<docs, tmp, orphans, calls, faults, crashes, pl, unreadable_docs, fd, r, h, disk>>

\* MergeReturn without the try/except around the merge: its exception
\* reaches the except block of the attempt.
MergeReturnPropagates ==
    /\ d.pc = "merging"
    /\ m.pc = "returned"
    /\ d' = IF m.ret = "raised" THEN OnError("connection reset")
            ELSE [d EXCEPT !.pc = "returned", !.result = "path"]
    /\ h' = [h EXCEPT !.merged = @ + (IF m.ret = "true" THEN 1 ELSE 0),
                !.failures = @ + (IF m.ret = "raised" THEN 1 ELSE 0)]
    /\ UNCHANGED <<docs, tmp, orphans, m, calls, faults, crashes, pl, unreadable_docs, fd, r, disk>>

\* merge_transcript_chunk has returned or raised: either way
\* download_with_retry returns the transcript path.
MergeReturn ==
    /\ d.pc = "merging"
    /\ m.pc = "returned"
    /\ d' = [d EXCEPT !.pc = "returned", !.result = "path"]
    /\ h' = [h EXCEPT !.merged = @ + (IF m.ret = "true" THEN 1 ELSE 0),
                !.failures = @ + (IF m.ret = "raised" THEN 1 ELSE 0)]
    /\ UNCHANGED <<docs, tmp, orphans, m, calls, faults, crashes, pl, unreadable_docs, fd, r, disk>>

\* SleepDone without `backoff *= 2`.
SleepDoneNoDoubling ==
    /\ d.pc = "sleep"
    /\ d' = [d EXCEPT !.attempt = @ + 1, !.sleeps = Append(@, d.wait),
                !.pc = IF d.attempt + 1 <= r.max_retries THEN "fetch" ELSE "returned",
                !.result = IF d.attempt + 1 <= r.max_retries THEN @ ELSE "None"]
    /\ UNCHANGED <<docs, tmp, orphans, m, calls, faults, crashes, pl, unreadable_docs, fd, r, h, disk>>

\* SleepDone starting the next attempt at the transcribe step.
SleepDoneResumesAtTranscribe ==
    /\ d.pc = "sleep"
    /\ d' = [d EXCEPT !.attempt = @ + 1, !.backoff = @ * 2,
                !.sleeps = Append(@, d.wait),
                !.pc = IF d.attempt + 1 <= r.max_retries
                       THEN "transcribe" ELSE "returned",
                !.result = IF d.attempt + 1 <= r.max_retries THEN @ ELSE "None"]
    /\ UNCHANGED <<docs, tmp, orphans, m, calls, faults, crashes, pl, unreadable_docs, fd, r, h, disk>>

\* SleepDone carrying the doubled wait of a rate-limit error into the
\* backoff of the later attempts.
SleepDoneKeepsRateLimitWait ==
    /\ d.pc = "sleep"
    /\ d' = [d EXCEPT !.attempt = @ + 1,
                !.backoff = IF IsRateLimit(d.errors[Len(d.errors)])
                            THEN @ * 4 ELSE @ * 2,
                !.sleeps = Append(@, d.wait),
                !.pc = IF d.attempt + 1 <= r.max_retries THEN "fetch" ELSE "returned",
                !.result = IF d.attempt + 1 <= r.max_retries THEN @ ELSE "None"]
    /\ UNCHANGED <<docs, tmp, orphans, m, calls, faults, crashes, pl, unreadable_docs, fd, r, h, disk>>

\* time.sleep(wait_time) returns; backoff *= 2; the next attempt of
\* range(max_retries + 1), or the `return None` after the loop.
SleepDone ==
    /\ d.pc = "sleep"
    /\ d' = [d EXCEPT !.attempt = @ + 1, !.backoff = @ * 2,
                !.sleeps = Append(@, d.wait),
                !.pc = IF d.attempt + 1 <= r.max_retries THEN "fetch" ELSE "returned",
                !.result = IF d.attempt + 1 <= r.max_retries THEN @ ELSE "None"]
    /\ UNCHANGED <<docs, tmp, orphans, m, calls, faults, crashes, pl, unreadable_docs, fd, r, h, disk>>

\* ChunkEnd with `if result:` narrowed to a transcript path: a skipped chunk
\* counts as failed.
ChunkEndSkippedIsFailure ==
    /\ r.pc = "loop"
    /\ d.pc = "returned"
    /\ r' = [r EXCEPT
                !.successful_chunks = @ + (IF d.result = "path" THEN 1 ELSE 0),
                !.failed_chunks = @ + (IF d.result # "path" THEN 1 ELSE 0),
                !.ki = @ + 1]
    /\ d' = NoDownload
    /\ h' = [h EXCEPT !.results = Append(@, d.result)]
    /\ UNCHANGED <<docs, tmp, orphans, m, calls, faults, crashes, pl, unreadable_docs, fd, disk>>

\* ChunkEnd that leaves the loops at the first failed chunk.
ChunkEndStopsAtFailure ==
    /\ r.pc = "loop"
    /\ d.pc = "returned"
    /\ r' = [r EXCEPT
                !.successful_chunks = @ + (IF d.result # "None" THEN 1 ELSE 0),
                !.failed_chunks = @ + (IF d.result = "None" THEN 1 ELSE 0),
                !.ki = @ + 1,
                !.ci = IF d.result = "None" THEN Len(r.cameras) + 1 ELSE @]
    /\ d' = NoDownload
    /\ h' = [h EXCEPT !.results = Append(@, d.result)]
    /\ UNCHANGED <<docs, tmp, orphans, m, calls, faults, crashes, pl, unreadable_docs, fd, disk>>

\* download_with_retry has returned: the statistics, and the next pair.
ChunkEnd ==
    /\ r.pc = "loop"
    /\ d.pc = "returned"
    /\ r' = [r EXCEPT
                !.successful_chunks = @ + (IF d.result # "None" THEN 1 ELSE 0),
                !.failed_chunks = @ + (IF d.result = "None" THEN 1 ELSE 0),
                !.ki = @ + 1]
    /\ d' = NoDownload
    /\ h' = [h EXCEPT !.results = Append(@, d.result)]
    /\ UNCHANGED <<docs, tmp, orphans, m, calls, faults, crashes, pl, unreadable_docs, fd, disk>>

\* The chunks of a camera are exhausted: the next camera.
NextCamera ==
    /\ r.pc = "loop"
    /\ d.pc = "off"
    /\ r.ci <= Len(r.cameras)
    /\ r.ki > Len(r.chunks)
    /\ r' = [r EXCEPT !.ci = @ + 1, !.ki = 1]
    /\ UNCHANGED <<docs, tmp, orphans, m, calls, faults, crashes, pl, unreadable_docs, fd, d, h, disk>>

\* The cameras are exhausted: the summary and the statistics.
RunEnd ==
    /\ r.pc = "loop"
    /\ d.pc = "off"
    /\ r.ci > Len(r.cameras)
    /\ r' = [r EXCEPT !.pc = "done"]
    /\ UNCHANGED <<docs, tmp, orphans, m, calls, faults, crashes, pl, unreadable_docs, fd, d, h, disk>>

\* The process is terminated at any point of a run: nothing of it runs any
\* more, its files stay as they are.
RunKilled ==
    /\ r.pc = "loop"
    /\ crashes < MaxCrashes
    /\ crashes' = crashes + 1
    /\ r' = [r EXCEPT !.pc = "killed"]
    /\ d' = NoDownload
    /\ orphans' = orphans + (IF tmp.exists THEN 1 ELSE 0)
    /\ tmp' = NoTmp
    /\ m' = IF m.pc \in {"mkstemp", "copy", "write", "replace"}
            THEN [m EXCEPT !.pc = "killed"] ELSE m
    /\ UNCHANGED <<docs, calls, faults, pl, unreadable_docs, fd, h, disk>>

---------------------------------------------------------------------------
(* SpecRun: runs of download_footage_sequential, each with the same        *)
(* arguments, on a transcripts directory that starts empty.                *)

InitRun ==
    /\ docs = <<>>
    /\ unreadable_docs = {}
    /\ tmp = NoTmp
    /\ orphans = 0
    /\ m = IdleFrame
    /\ calls = 0
    /\ faults = 0
    /\ crashes = 0
    /\ pl = NoPlan
    /\ fd = NoDiscovery
    /\ \E sc \in Scenarios, max_retries \in RetryLimits, backoff \in Backoffs :
            r = [NoRun EXCEPT !.cameras = sc.cameras, !.start_date = sc.range[1],
                    !.end_date = sc.range[2], !.has_dir = sc.has_dir,
                    !.max_retries = max_retries,
                    !.initial_backoff = backoff.initial,
                    !.max_backoff = backoff.max]
    /\ d = NoDownload
    /\ h = NoHistory
    /\ disk = {}

NextRun ==
    \/ RunBegin
    \/ ChunkBegin
    \/ FetchOk
    \/ FetchFails
    \/ ConvertOk
    \/ ConvertFails
    \/ TranscribeOk
    \/ TranscribeFails
    \/ MergeCall
    \/ (d.pc = "merging" /\ MergeStep)
    \/ MergeReturn
    \/ SleepDone
    \/ ChunkEnd
    \/ NextCamera
    \/ RunEnd
    \/ RunKilled

SpecRun == InitRun /\ [][NextRun]_vars

---------------------------------------------------------------------------
(* SpecRetry: download_with_retry on one chunk of one camera, without a    *)
(* transcripts directory, for a range of retry limits and backoffs.        *)

RetryRetryLimits == {0, 1, 2, 3}
RetryBackoffs ==
    {[initial |-> 1, max |-> 3], [initial |-> 1, max |-> 100],
     [initial |-> 2, max |-> 5]}
\* whether the files at whisper_bin and model_path exist
WhisperInstalls ==
    {[bin |-> "present", model |-> "present"],
     [bin |-> "missing", model |-> "present"],
     [bin |-> "present", model |-> "missing"]}

InitRetry ==
    /\ docs = <<>>
    /\ unreadable_docs = {}
    /\ tmp = NoTmp
    /\ orphans = 0
    /\ m = IdleFrame
    /\ calls = 0
    /\ faults = 0
    /\ crashes = 0
    /\ pl = NoPlan
    /\ fd = NoDiscovery
    /\ \E max_retries \in RetryRetryLimits, backoff \in RetryBackoffs,
          whisper \in WhisperInstalls :
            r = [NoRun EXCEPT !.cameras = <<CamA>>, !.start_date = OneChunk[1],
                    !.end_date = OneChunk[2], !.has_dir = FALSE,
                    !.max_retries = max_retries,
                    !.initial_backoff = backoff.initial,
                    !.max_backoff = backoff.max,
                    !.whisper_bin = whisper.bin, !.model_path = whisper.model]
    /\ d = NoDownload
    /\ h = NoHistory
    /\ disk = {}

NextRetry ==
    \/ RunBegin
    \/ ChunkBegin
    \/ FetchOk
    \/ FetchFails
    \/ ConvertOk
    \/ ConvertFails
    \/ TranscribeOk
    \/ TranscribeFails
    \/ TranscribeNotInstalled
    \/ SleepDone
    \/ ChunkEnd
    \/ NextCamera
    \/ RunEnd

SpecRetry == InitRetry /\ [][NextRetry]_vars

---------------------------------------------------------------------------
(* SpecSched: runs of download_footage_sequential without a transcripts    *)
(* directory, which never stop on their own before they return.            *)

InitSched ==
    /\ docs = <<>>
    /\ unreadable_docs = {}
    /\ tmp = NoTmp
    /\ orphans = 0
    /\ m = IdleFrame
    /\ calls = 0
    /\ faults = 0
    /\ crashes = 0
    /\ pl = NoPlan
    /\ fd = NoDiscovery
    /\ \E cameras \in CameraLists, range \in Ranges,
          max_retries \in RetryLimits, backoff \in Backoffs :
            r = [NoRun EXCEPT !.cameras = cameras, !.start_date = range[1],
                    !.end_date = range[2], !.has_dir = FALSE,
                    !.max_retries = max_retries,
                    !.initial_backoff = backoff.initial,
                    !.max_backoff = backoff.max]
    /\ d = NoDownload
    /\ h = NoHistory
    /\ disk = {}

\* The steps of a run in progress: every step but the start of a run.
RunStep ==
    \/ ChunkBegin
    \/ FetchOk
    \/ FetchFails
    \/ ConvertOk
    \/ ConvertFails
    \/ TranscribeOk
    \/ TranscribeFails
    \/ SleepDone
    \/ ChunkEnd
    \/ NextCamera
    \/ RunEnd

NextSched ==
    \/ RunBegin
    \/ RunStep

\* The interpreter runs the single thread of a started run to its end.
SpecSched == InitSched /\ [][NextSched]_vars /\ WF_vars(RunStep)

---------------------------------------------------------------------------
(* footage_discovery.py: discover_footage_range, one action per step.      *)
(* SpecDiscover calls it for camera lists of up to two cameras, every      *)
(* max_days_back up to MaxDaysBack, and cameras whose listing may differ   *)
(* from one check to the next.                                             *)

\* the largest max_days_back of a call
MaxDaysBack == 4
\* midnight of today, late enough for the walk not to leave the time line
Today == (MaxDaysBack + 1) * DayTicks

\* datetime.min: the recording_start of a camera without recordings
DateTimeMin == -2
RecordingStarts ==
    {DateTimeMin}
        \cup {k * DayTicks + o : k \in 0..(MaxDaysBack + 2), o \in {0, DayTicks - 1}}
\* What list_cameras gives check_footage_exists for its camera: an
\* exception, a list without the camera, or the camera's recording_start.
Listings ==
    {[status |-> "raises", recording_start |-> DateTimeMin],
     [status |-> "absent", recording_start |-> DateTimeMin]}
        \cup {[status |-> "listed", recording_start |-> t] : t \in RecordingStarts}

DiscoverCameraLists == {<<>>, <<"c1">>, <<"c1", "c2">>}

\* check_footage_exists with `recording_start_local <= check_date_end`.
check_footage_exists_inclusive(listing, check_date) ==
    IF listing.status # "listed" THEN FALSE
    ELSE IF listing.recording_start = DateTimeMin THEN FALSE
    ELSE listing.recording_start <= check_date + DayTicks

\* check_footage_exists: whether the camera's recordings started before the
\* end of the day that starts at check_date.
check_footage_exists(listing, check_date) ==
    IF listing.status # "listed" THEN FALSE
    ELSE IF listing.recording_start = DateTimeMin THEN FALSE
    ELSE listing.recording_start < check_date + DayTicks

\* list_cameras, the empty result for no cameras, the start of the walk at
\* today's midnight, and the first test of `days_checked < max_days_back`.
DiscoverBegin ==
    /\ fd.pc = "called"
    /\ fd' = IF fd.cameras = <<>>
             THEN [fd EXCEPT !.pc = "done"]
             ELSE [fd EXCEPT !.current_date = Today, !.latest_date = Today,
                      !.per_camera_ranges =
                          [c \in 1..Len(fd.cameras) |->
                              [earliest_date |-> NoDate, latest_date |-> NoDate]],
                      !.pc = IF 0 < fd.max_days_back THEN "check" ELSE "count"]
    /\ UNCHANGED <<docs, tmp, orphans, m, calls, faults, crashes, pl, unreadable_docs, r, d, h, disk>>

\* CheckFootage that sets the camera's latest_date on every day with
\* footage, not only on the first.
CheckFootageOverwritesLatest ==
    /\ fd.pc = "check"
    /\ \E listing \in Listings :
          LET has_footage == check_footage_exists(listing, fd.current_date)
              first == fd.ci = 1
              range == fd.per_camera_ranges[fd.ci]
          IN  fd' = [fd EXCEPT
                  !.any_footage_found = (IF first THEN FALSE ELSE @) \/ has_footage,
                  !.per_camera_ranges[fd.ci] =
                      IF has_footage
                      THEN [earliest_date |-> fd.current_date,
                            latest_date |-> fd.current_date]
                      ELSE range,
                  !.dates = IF first THEN Append(@, fd.current_date) ELSE @,
                  !.reports = IF first THEN Append(@, <<has_footage>>)
                              ELSE [@ EXCEPT ![Len(fd.reports)] =
                                                 Append(@, has_footage)],
                  !.listing = listing,
                  !.errors = (IF first THEN 0 ELSE @)
                                 + (IF listing.status = "raises" THEN 1 ELSE 0),
                  !.ci = IF fd.ci = Len(fd.cameras) THEN 1 ELSE @ + 1,
                  !.pc = IF fd.ci = Len(fd.cameras) THEN "day" ELSE "check"]
    /\ UNCHANGED <<docs, tmp, orphans, m, calls, faults, crashes, pl, unreadable_docs, r, d, h, disk>>

\* One pass of `for camera in cameras`: check_footage_exists for the camera
\* and the current date, and the update of the camera's range.
CheckFootage ==
    /\ fd.pc = "check"
    /\ \E listing \in Listings :
          LET has_footage == check_footage_exists(listing, fd.current_date)
              first == fd.ci = 1
              range == fd.per_camera_ranges[fd.ci]
          IN  fd' = [fd EXCEPT
                  !.any_footage_found = (IF first THEN FALSE ELSE @) \/ has_footage,
                  !.per_camera_ranges[fd.ci] =
                      IF has_footage
                      THEN [earliest_date |-> fd.current_date,
                            latest_date |-> IF range.latest_date = NoDate
                                            THEN fd.current_date
                                            ELSE range.latest_date]
                      ELSE range,
                  !.dates = IF first THEN Append(@, fd.current_date) ELSE @,
                  !.reports = IF first THEN Append(@, <<has_footage>>)
                              ELSE [@ EXCEPT ![Len(fd.reports)] =
                                                 Append(@, has_footage)],
                  !.listing = listing,
                  !.errors = (IF first THEN 0 ELSE @)
                                 + (IF listing.status = "raises" THEN 1 ELSE 0),
                  !.ci = IF fd.ci = Len(fd.cameras) THEN 1 ELSE @ + 1,
                  !.pc = IF fd.ci = Len(fd.cameras) THEN "day" ELSE "check"]
    /\ UNCHANGED <<docs, tmp, orphans, m, calls, faults, crashes, pl, unreadable_docs, r, d, h, disk>>

\* DayEnd without the break: the walk goes on past a day without footage.
DayEndNoBreak ==
    /\ fd.pc = "day"
    /\ fd' = [fd EXCEPT
                 !.earliest_date = IF fd.any_footage_found THEN fd.current_date ELSE @,
                 !.current_date = @ - DayTicks,
                 !.days_checked = @ + 1,
                 !.pc = IF fd.days_checked + 1 < fd.max_days_back
                        THEN "check" ELSE "count"]
    /\ UNCHANGED <<docs, tmp, orphans, m, calls, faults, crashes, pl, unreadable_docs, r, d, h, disk>>

\* DayEnd with `while days_checked <= max_days_back`.
DayEndOneDayMore ==
    /\ fd.pc = "day"
    /\ fd' = IF fd.any_footage_found
             THEN [fd EXCEPT !.earliest_date = fd.current_date,
                      !.current_date = @ - DayTicks,
                      !.days_checked = @ + 1,
                      !.pc = IF fd.days_checked + 1 <= fd.max_days_back
                             THEN "check" ELSE "count"]
             ELSE [fd EXCEPT !.pc = "count"]
    /\ UNCHANGED <<docs, tmp, orphans, m, calls, faults, crashes, pl, unreadable_docs, r, d, h, disk>>

\* The end of a day of the walk: with footage, earliest_date is the day, the
\* walk moves to the previous day and `days_checked < max_days_back` is
\* tested again; without footage, break.
DayEnd ==
    /\ fd.pc = "day"
    /\ fd' = IF fd.any_footage_found
             THEN [fd EXCEPT !.earliest_date = fd.current_date,
                      !.current_date = @ - DayTicks,
                      !.days_checked = @ + 1,
                      !.pc = IF fd.days_checked + 1 < fd.max_days_back
                             THEN "check" ELSE "count"]
             ELSE [fd EXCEPT !.pc = "count"]
    /\ UNCHANGED <<docs, tmp, orphans, m, calls, faults, crashes, pl, unreadable_docs, r, d, h, disk>>

\* After the loop: the warning for the cap, days_with_footage, the result.
DiscoverReturn ==
    /\ fd.pc = "count"
    /\ fd' = [fd EXCEPT !.pc = "done",
                 !.warned = fd.days_checked >= fd.max_days_back,
                 !.days_with_footage =
                     IF fd.earliest_date # NoDate
                     THEN (fd.latest_date - fd.earliest_date) \div DayTicks + 1
                     ELSE 0]
    /\ UNCHANGED <<docs, tmp, orphans, m, calls, faults, crashes, pl, unreadable_docs, r, d, h, disk>>

InitDiscover ==
    /\ docs = <<>>
    /\ unreadable_docs = {}
    /\ tmp = NoTmp
    /\ orphans = 0
    /\ m = IdleFrame
    /\ calls = 0
    /\ faults = 0
    /\ crashes = 0
    /\ pl = NoPlan
    /\ \E cameras \in DiscoverCameraLists, max_days_back \in 0..MaxDaysBack :
          fd = [NoDiscovery EXCEPT !.pc = "called", !.cameras = cameras,
                   !.max_days_back = max_days_back]
    /\ r = NoRun
    /\ d = NoDownload
    /\ h = NoHistory
    /\ disk = {}

NextDiscover ==
    \/ DiscoverBegin
    \/ CheckFootage
    \/ DayEnd
    \/ DiscoverReturn

\* The call runs in one thread and every list_cameras call returns or
\* raises, so a step that can be taken is taken.
SpecDiscover == InitDiscover /\ [][NextDiscover]_vars /\ WF_vars(NextDiscover)

---------------------------------------------------------------------------
(* SpecLedger: runs of download_footage_sequential for one camera with a   *)
(* transcripts directory whose documents may fail to be read.              *)

\* Reads of a daily document start to fail: `open` or the iteration over
\* the lines raises in load_processed_chunks and in the copy of
\* append_transcript_chunk.
ReadsStartFailing ==
    /\ faults < MaxFaults
    /\ faults' = faults + 1
    /\ \E p \in DOMAIN docs \ unreadable_docs :
          unreadable_docs' = unreadable_docs \cup {p}
    /\ UNCHANGED <<docs, tmp, orphans, m, calls, crashes, pl, fd, r, d, h, disk>>

\* The reads succeed again.
ReadsStopFailing ==
    /\ unreadable_docs # {}
    /\ unreadable_docs' = {}
    /\ UNCHANGED <<docs, tmp, orphans, m, calls, faults, crashes, pl, fd, r, d, h, disk>>

InitLedger ==
    /\ docs = <<>>
    /\ unreadable_docs = {}
    /\ tmp = NoTmp
    /\ orphans = 0
    /\ m = IdleFrame
    /\ calls = 0
    /\ faults = 0
    /\ crashes = 0
    /\ pl = NoPlan
    /\ fd = NoDiscovery
    /\ \E range \in {OneChunk, AcrossDays} :
            r = [NoRun EXCEPT !.cameras = <<CamA>>, !.start_date = range[1],
                    !.end_date = range[2], !.has_dir = TRUE, !.max_retries = 0,
                    !.initial_backoff = 1, !.max_backoff = 3]
    /\ d = NoDownload
    /\ h = NoHistory
    /\ disk = {}

NextLedger ==
    \/ RunBegin
    \/ ChunkBegin
    \/ FetchOk
    \/ ConvertOk
    \/ TranscribeOk
    \/ MergeCall
    \/ (d.pc = "merging" /\ MergeStep)
    \/ (d.pc = "merging" /\ CopyReadFails)
    \/ MergeReturn
    \/ ChunkEnd
    \/ NextCamera
    \/ RunEnd
    \/ ReadsStartFailing
    \/ ReadsStopFailing

SpecLedger == InitLedger /\ [][NextLedger]_vars

---------------------------------------------------------------------------
(* Properties of the merge (SpecMerge).                                    *)

\* What the call in progress makes of its document when it completes.
AfterAppend ==
    [exists |-> TRUE,
     data |-> m.before.data
                 \o Flatten(AppendWrites(m.file_exists, m.chunk_id, m.camera_name,
                                         m.start_dt, m.end_dt, m.text))]

\* C1: after any sequence of merge_transcript_chunk calls from an empty
\* transcripts directory, no daily document holds the marker line of one
\* ChunkIdentifier more than once.
C1_MarkerAtMostOnce ==
    \A p \in DOMAIN docs :
        \A camera_name \in CameraNames, start_dt \in StartTimes :
            MarkerLineCount(docs[p], get_chunk_identifier(camera_name, start_dt)) <= 1

\* C2: a merge_transcript_chunk call that returns (its transcript file
\* readable, no step raising) has returned false and left the document as it
\* was if the marker line of the chunk's identifier was in the document, and
\* has returned true and appended exactly the chunk's section (after the
\* header, for a new document) if it was not.
C2_MergeTrueThenFalse ==
    (m.pc = "returned" /\ m.fail = "none") =>
        IF MarkerLineCount(m.before.data, m.chunk_id) > 0
        THEN m.ret = "false" /\ FileAt(m.path) = m.before
        ELSE m.ret = "true" /\ FileAt(m.path) = AfterAppend

\* C3: at every step of append_transcript_chunk, and after the process was
\* terminated at any of them, the daily document's path holds either exactly
\* what it held before the call or exactly that followed by everything the
\* call appends; never a part of it.
C3_NoPartialDocument ==
    m.pc \in {"mkstemp", "copy", "write", "replace", "killed", "returned"} =>
        /\ FileAt(m.path) \in {m.before, AfterAppend}
        /\ m.pc \in {"mkstemp", "copy", "write", "replace", "killed"}
              => FileAt(m.path) = m.before

\* The process was terminated while the new section was being appended to a
\* temp file that already held the copy of an existing document.
C3_Witness ==
    /\ m.pc = "killed"
    /\ m.file_exists
    /\ m.pos > 0
    /\ m.wi \in 1..4
    /\ orphans > 0

---------------------------------------------------------------------------
(* Properties of the runs (SpecRun).                                       *)

\* The (camera, chunk) pairs of the run, by their indices.
Pairs == (1..Len(r.cameras)) \X (1..Len(r.chunks))

PairId(x) == get_chunk_identifier(r.cameras[x[1]].name, r.chunks[x[2]][1])
PairPath(x) == get_daily_transcript_path(r.cameras[x[1]].name, r.chunks[x[2]][1])

\* The pairs whose marker line was in their daily document when the run
\* started.
PresentAtStart ==
    {x \in Pairs :
        /\ PairPath(x) \in DOMAIN h.docs0
        /\ MarkerLineCount(h.docs0[PairPath(x)], PairId(x)) > 0}

\* How many chunk sections of a content carry an identifier: its marker
\* line, an empty line, the heading.
SectionCount(content, chunk_id) ==
    LET ls == Lines(content)
    IN  Cardinality({i \in 1..Len(ls) - 2 :
            /\ ls[i] = MarkerLineOf(chunk_id)
            /\ ls[i + 1] = <<>>
            /\ ls[i + 2] # <<>>
            /\ ls[i + 2][1] = "##"})

\* C5: when the ledger reported the chunk as processed, download_with_retry
\* has returned Skipped and has made no fetch, convert, transcribe or merge
\* call and no sleep.
C5_SkippedMakesNoCalls ==
    (d.pc # "off" /\ d.ledger) =>
        /\ d.pc = "returned"
        /\ d.result = "skipped"
        /\ d.fetches = 0
        /\ d.converts = 0
        /\ d.transcribes = 0
        /\ d.merges = 0
        /\ d.sleeps = <<>>

\* A chunk of the second run is skipped while its document holds its marker.
C5_Witness ==
    /\ h.run = 2
    /\ d.pc = "returned"
    /\ d.ledger
    /\ d.result = "skipped"
    /\ d.marked

\* C6: a run with a transcripts directory that has returned and in which no
\* fetch, convert, transcribe or merge failed has made total - k calls of
\* each of fetch, convert and transcribe, k the number of its pairs whose
\* marker was in the daily document before the run, and reports
\* successful_chunks = total, failed_chunks = 0.
C6_CallsAreTotalMinusPresent ==
    (r.pc = "done" /\ r.has_dir /\ h.failures = 0) =>
        LET k == Cardinality(PresentAtStart)
        IN  /\ r.total_chunks = Len(r.cameras) * Len(r.chunks)
            /\ h.fetch_calls = r.total_chunks - k
            /\ h.convert_calls = r.total_chunks - k
            /\ h.transcribe_calls = r.total_chunks - k
            /\ r.successful_chunks = r.total_chunks
            /\ r.failed_chunks = 0

\* C7: a run that follows a run in which every chunk was merged makes no
\* fetch, convert or transcribe call, reports every chunk as successful and
\* leaves every daily document as it was.
C7_RerunDoesNothing ==
    (r.has_dir /\ h.prev_all_merged) =>
        /\ h.fetch_calls = 0
        /\ h.convert_calls = 0
        /\ h.transcribe_calls = 0
        /\ docs = h.docs0
        /\ r.pc = "done" =>
              r.successful_chunks = r.total_chunks /\ r.failed_chunks = 0

\* C8: in a run started after a run was terminated, a chunk is skipped
\* exactly if its marker is in its daily document and is fetched otherwise, a
\* run that returns has counted every pair, and no document holds two
\* sections of one chunk.
C8_ResumeAfterKill ==
    (r.has_dir /\ h.after_kill) =>
        /\ d.pc = "returned" =>
              /\ (d.result = "skipped") = d.marked
              /\ d.result # "skipped" => d.fetches >= 1
        /\ r.pc = "done" =>
              r.successful_chunks + r.failed_chunks = r.total_chunks
        /\ \A p \in DOMAIN docs : \A x \in Pairs :
              SectionCount(docs[p], PairId(x)) <= 1

---------------------------------------------------------------------------
(* Properties of the chunk planner (SpecChunks).                           *)

\* C9: for start < end the chunks are a non-empty list that starts at start,
\* ends at end, and in which every chunk is non-empty and starts where the
\* one before it ends.
C9_ChunksCoverRange ==
    (pl.pc = "returned" /\ pl.start_date < pl.end_date) =>
        LET cs == pl.chunks
        IN  /\ Len(cs) >= 1
            /\ cs[1][1] = pl.start_date
            /\ cs[Len(cs)][2] = pl.end_date
            /\ \A i \in 1..Len(cs) : cs[i][1] < cs[i][2]
            /\ \A i \in 2..Len(cs) : cs[i][1] = cs[i - 1][2]

\* A range of several chunks whose last chunk is shorter than an hour.
C9_Witness ==
    /\ pl.pc = "returned"
    /\ Len(pl.chunks) >= 3
    /\ pl.chunks[Len(pl.chunks)][2] - pl.chunks[Len(pl.chunks)][1] < Hour

\* C10: for start >= end the result is the empty list.
C10_EmptyForInvalidRange ==
    (pl.pc = "returned" /\ pl.start_date >= pl.end_date) => pl.chunks = <<>>

\* A reversed range more than an hour long has been planned.
C10_Witness ==
    /\ pl.pc = "returned"
    /\ pl.start_date > pl.end_date + Hour
    /\ pl.chunks = <<>>

\* ceil(a / b) for b > 0
CeilDiv(a, b) == (a + b - 1) \div b

\* C11: every chunk but the last is exactly one hour wide, the last is
\* longer than zero and at most one hour, and for start < end the loop ends
\* after ceil((end - start) / 1 hour) chunks.
C11_ChunkWidths ==
    pl.pc = "returned" =>
        LET cs == pl.chunks
        IN  /\ \A i \in 1..Len(cs) - 1 : cs[i][2] - cs[i][1] = Hour
            /\ Len(cs) >= 1 =>
                  /\ cs[Len(cs)][2] - cs[Len(cs)][1] > 0
                  /\ cs[Len(cs)][2] - cs[Len(cs)][1] <= Hour
            /\ pl.start_date < pl.end_date =>
                  Len(cs) = CeilDiv(pl.end_date - pl.start_date, Hour)

\* Two chunks have been planned for a range of an hour and a half.
C11_Witness ==
    /\ pl.pc = "returned"
    /\ pl.end_date - pl.start_date = Hour + 1
    /\ Len(pl.chunks) = 2
    /\ pl.chunks[2][2] - pl.chunks[2][1] = 1


---------------------------------------------------------------------------
(* Properties of the retries (SpecRetry).                                  *)

\* The backoff of the i-th failed attempt: initial_backoff doubled i - 1
\* times.
BackoffAt(i) == r.initial_backoff * 2 ^ (i - 1)

\* C12: a chunk never gets more than max_retries + 1 fetch attempts and
\* never a sleep after the last one; when every attempt has failed,
\* download_with_retry has made max_retries + 1 fetch attempts and
\* max_retries sleeps and has returned None.
C12_ExhaustedRetries ==
    /\ d.fetches <= r.max_retries + 1
    /\ Len(d.sleeps) <= r.max_retries
    /\ d.pc = "sleep" => d.attempt < r.max_retries
    /\ Len(d.errors) = r.max_retries + 1 =>
          /\ d.pc = "returned"
          /\ d.result = "None"
          /\ d.fetches = r.max_retries + 1
          /\ Len(d.sleeps) = r.max_retries
    /\ (d.pc = "returned" /\ d.result = "None") =>
          Len(d.errors) = r.max_retries + 1

\* Four attempts have failed, one of them in the conversion, and the call
\* has returned None.
C12_Witness ==
    /\ r.max_retries = 3
    /\ d.pc = "returned"
    /\ d.result = "None"
    /\ d.fetches = 4
    /\ d.converts >= 1
    /\ Len(d.sleeps) = 3

\* C13: while the failures are generic ones, the i-th sleep lasts
\* min(initial_backoff * 2^(i-1), max_backoff).
C13_GenericBackoff ==
    \A i \in 1..Len(d.sleeps) :
        (\A j \in 1..i : ~IsRateLimit(d.errors[j])) =>
            d.sleeps[i] = Min(BackoffAt(i), r.max_backoff)

\* With initial_backoff 1 and max_backoff 100, three generic failures and
\* then success: the sleeps were 1, 2, 4.
C13_Witness ==
    /\ r.initial_backoff = 1
    /\ r.max_backoff = 100
    /\ d.pc = "returned"
    /\ d.result = "path"
    /\ Len(d.errors) = 3
    /\ \A j \in 1..3 : ~IsRateLimit(d.errors[j])
    /\ d.sleeps = <<1, 2, 4>>

\* C14 as stated: the sleep after a rate-limit error is twice the current
\* backoff.
C14_RateLimitSleepIsDouble ==
    \A i \in 1..Len(d.sleeps) :
        IsRateLimit(d.errors[i]) => d.sleeps[i] = 2 * BackoffAt(i)

\* C14, amended: the sleep after a rate-limit error is twice the current
\* backoff, capped at max_backoff.
C14_RateLimitSleepIsDoubleCapped ==
    \A i \in 1..Len(d.sleeps) :
        IsRateLimit(d.errors[i]) =>
            d.sleeps[i] = Min(2 * BackoffAt(i), r.max_backoff)

\* A rate-limit error was followed by a sleep of twice the backoff, and a
\* later one by a sleep that max_backoff cut short.
C14_Witness ==
    \E i, j \in 1..Len(d.sleeps) :
        /\ i < j
        /\ IsRateLimit(d.errors[i])
        /\ d.sleeps[i] = 2 * BackoffAt(i)
        /\ IsRateLimit(d.errors[j])
        /\ d.sleeps[j] = r.max_backoff
        /\ r.max_backoff < 2 * BackoffAt(j)


---------------------------------------------------------------------------
(* Properties of a chunk's attempt and its files (SpecRun).                *)

\* The intermediate artifacts of the chunk of the call in progress.
ChunkArtifacts ==
    LET video_path == VideoFile(d.camera, d.start_dt)
    IN  {video_path, WavFile(video_path), TranscriptFile(WavFile(video_path))}

\* C15: when the merge of an attempt has raised, download_with_retry
\* returns the transcript path with no further fetch and no sleep, and the
\* scheduler counts the chunk as successful.
C15_MergeFailureIsSuccess ==
    [][/\ (d.pc = "merging" /\ m.pc = "returned" /\ m.ret = "raised"
              /\ d' # d /\ r'.pc # "killed") =>
             /\ d'.pc = "returned"
             /\ d'.result = "path"
             /\ d'.fetches = d.fetches
             /\ d'.sleeps = d.sleeps
       /\ (d.pc = "returned" /\ d.merges = 1 /\ m.ret = "raised"
              /\ d' # d /\ r'.pc # "killed") =>
             /\ d.result = "path"
             /\ r'.successful_chunks = r.successful_chunks + 1
             /\ r'.failed_chunks = r.failed_chunks]_vars

\* The first chunk's merge raised at the rename and the chunk was counted
\* as successful.
C15_Witness ==
    /\ r.pc = "loop"
    /\ d.pc = "off"
    /\ m.pc = "returned"
    /\ m.ret = "raised"
    /\ m.fail = "replace"
    /\ r.ci = 1
    /\ r.ki = 2
    /\ r.successful_chunks = 1
    /\ r.failed_chunks = 0

\* C16: when download_with_retry has returned the transcript path, the
\* video, the audio and the transcript file of the chunk are gone from disk.
C16_SuccessRemovesArtifacts ==
    (d.pc = "returned" /\ d.result = "path") => ChunkArtifacts \cap disk = {}

\* C17: when download_with_retry has returned None, no artifact of the
\* chunk is on disk, and when a chunk starts after chunks that all failed,
\* no artifact of theirs is.
C17_FailureRemovesArtifacts ==
    /\ (d.pc = "returned" /\ d.result = "None") => ChunkArtifacts \cap disk = {}
    /\ (h.run = 1 /\ d.pc = "fetch" /\ d.fetches = 0
           /\ r.successful_chunks = 0 /\ r.failed_chunks > 0) => disk = {}


---------------------------------------------------------------------------
(* Properties of the scheduler's loops (SpecSched, SpecRun).               *)

\* The i-th (camera, chunk) pair of the run, cameras in input order and the
\* chunks of each camera in the planner's order.
PairAt(i) ==
    <<r.cameras[((i - 1) \div Len(r.chunks)) + 1].id,
      r.chunks[((i - 1) % Len(r.chunks)) + 1]>>

\* How many elements of a sequence are in a set.
CountIn(seq, S) == Cardinality({i \in 1..Len(seq) : seq[i] \in S})

\* C18: the calls of download_with_retry made so far are the first pairs of
\* the run in camera-major order, each once, and a run that has returned
\* has made the call of every pair.
C18_CameraMajorOrder ==
    r.pc \in {"loop", "done"} =>
        /\ Len(h.order) <= Len(r.cameras) * Len(r.chunks)
        /\ \A i \in 1..Len(h.order) : h.order[i] = PairAt(i)
        /\ \A i \in 2..Len(h.order) :
              h.order[i][1] = h.order[i - 1][1] => h.order[i][2][1] > h.order[i - 1][2][1]
        /\ r.pc = "done" => Len(h.order) = Len(r.cameras) * Len(r.chunks)

\* A run of two cameras and two chunks has returned.
C18_Witness ==
    /\ r.pc = "done"
    /\ Len(r.cameras) = 2
    /\ Len(r.chunks) = 2
    /\ Len(h.order) = 4
    /\ h.order[2][1] = h.order[1][1]
    /\ h.order[3][1] # h.order[2][1]

\* C19: total_chunks is |cameras| x |chunks|; successful_chunks counts the
\* results that were Skipped or a path and failed_chunks those that were
\* None; their sum is the number of pairs processed so far and, when the run
\* has returned, total_chunks.
C19_Statistics ==
    r.pc \in {"loop", "done"} =>
        /\ r.total_chunks = Len(r.cameras) * Len(r.chunks)
        /\ r.successful_chunks = CountIn(h.results, {"skipped", "path"})
        /\ r.failed_chunks = CountIn(h.results, {"None"})
        /\ r.successful_chunks + r.failed_chunks = Len(h.results)
        /\ Len(h.results) = Len(h.order) - (IF d.pc = "off" THEN 0 ELSE 1)
        /\ r.pc = "done" => r.successful_chunks + r.failed_chunks = r.total_chunks

\* A run has returned after a skipped chunk and a failed one.
C19_Witness ==
    /\ r.pc = "done"
    /\ h.results = <<"skipped", "None">>
    /\ r.successful_chunks = 1
    /\ r.failed_chunks = 1

\* C20: a run in which a chunk has failed goes on to return with every pair
\* counted.
C20_FailureDoesNotStopRun ==
    (r.pc = "loop" /\ r.failed_chunks > 0)
        ~> (r.pc = "done" /\ r.failed_chunks > 0
               /\ Len(h.results) = Len(r.cameras) * Len(r.chunks)
               /\ r.successful_chunks + r.failed_chunks = r.total_chunks)

\* The first of four pairs failed and the last one succeeded.
C20_Witness ==
    /\ r.pc = "done"
    /\ Len(h.results) = 4
    /\ h.results[1] = "None"
    /\ h.results[4] = "path"
    /\ r.failed_chunks = 1


\* C21: a run whose range gives no chunk never calls download_with_retry
\* and its statistics are all zero, for any number of cameras.
C21_EmptyRangeRun ==
    (r.pc \in {"loop", "done"} /\ r.chunks = <<>>) =>
        /\ h.order = <<>>
        /\ d.pc = "off"
        /\ h.fetch_calls = 0
        /\ r.total_chunks = 0
        /\ r.successful_chunks = 0
        /\ r.failed_chunks = 0

\* A run of two cameras on a reversed range has returned.
C21_Witness ==
    /\ r.pc = "done"
    /\ Len(r.cameras) = 2
    /\ r.start_date > r.end_date
    /\ r.chunks = <<>>
    /\ r.ci = 3

\* C22: a call of download_with_retry starts only when every earlier call
\* of the run has returned and was counted; while a chunk is in its attempt
\* (fetching, converting, transcribing or asleep) no other chunk starts.
C22_OneChunkInFlight ==
    [][/\ h'.order # h.order =>
             /\ d.pc = "off"
             /\ (h'.run = h.run => Len(h.results) = Len(h.order))
       /\ d.pc \in {"fetch", "convert", "transcribe", "sleep"} =>
             (h'.order = h.order /\ h'.results = h.results)]_vars

\* The second of four chunks is asleep after a failure; the first has
\* returned and two are waiting.
C22_Witness ==
    /\ d.pc = "sleep"
    /\ Len(h.order) = 2
    /\ Len(h.results) = 1
    /\ r.total_chunks = 4

\* C30: every sleep of download_with_retry, done or in progress, lasts at
\* most max_backoff.
C30_SleepAtMostMaxBackoff ==
    /\ \A i \in 1..Len(d.sleeps) : d.sleeps[i] <= r.max_backoff
    /\ d.pc = "sleep" => d.wait <= r.max_backoff

\* The third failure, a rate-limit one, came with a backoff above
\* max_backoff, and the sleep lasts max_backoff.
C30_Witness ==
    /\ d.pc = "sleep"
    /\ Len(d.errors) = 3
    /\ IsRateLimit(d.errors[3])
    /\ d.backoff > r.max_backoff
    /\ d.wait = r.max_backoff

---------------------------------------------------------------------------
(* Properties of the ledger and of the merge writer (SpecMerge).           *)

IsPrefix(s, t) == Len(s) <= Len(t) /\ SubSeq(t, 1, Len(s)) = s

\* C24: is_chunk_already_processed(camera_name, start) is true exactly when
\* the daily document of (camera_name, date of start) exists and holds the
\* marker line of ChunkIdentifier(camera_name, start); false for a missing or
\* empty document and for one with only other chunks' markers.
C24_ProcessedIffMarkerLine ==
    \A camera_name \in CameraNames, start_dt \in StartTimes :
        LET path == get_daily_transcript_path(camera_name, start_dt)
        IN  is_chunk_already_processed(camera_name, start_dt)
                <=> /\ path \in DOMAIN docs
                    /\ MarkerLineCount(docs[path],
                           get_chunk_identifier(camera_name, start_dt)) > 0

\* C25: a merge_transcript_chunk call that has returned true has left what
\* the document held before the call as an exact prefix of what it holds
\* now, and has put the marker line of its chunk in what follows that prefix;
\* so sections stay in the order of the merges, chronological or not.
C25_PreviousContentIsPrefix ==
    (m.pc = "returned" /\ m.ret = "true") =>
        /\ m.path \in DOMAIN docs
        /\ IsPrefix(m.before.data, docs[m.path])
        /\ LET added == SubSeq(docs[m.path], Len(m.before.data) + 1,
                               Len(docs[m.path]))
               ls == Lines(added)
           IN  \E i \in 1..Len(ls) :
                   /\ ls[i] = MarkerLineOf(m.chunk_id)
                   /\ \A j \in 1..(i - 1) : ~IsMarkerLine(ls[j])

\* The chunk of an earlier hour was merged into a document that already held
\* the section of a later hour of the same day.
C25_Witness ==
    /\ m.pc = "returned"
    /\ m.ret = "true"
    /\ m.camera_name = <<"a">>
    /\ m.start_dt = DayTicks - 2 * Hour
    /\ SectionCount(m.before.data, get_chunk_identifier(<<"a">>, DayTicks - Hour)) = 1
    /\ SectionCount(docs[m.path], m.chunk_id) = 1

\* C26: every daily document starts with the header of its calendar date and
\* camera name; the header's title line and its "Transcript for camera" line
\* are in the document exactly once, however many chunks were merged into
\* it, and every marker line comes after the header.
C26_HeaderExactlyOnce ==
    \A p \in DOMAIN docs :
        \E camera_name \in CameraNames, start_dt \in StartTimes :
            /\ p = get_daily_transcript_path(camera_name, start_dt)
            /\ LET header == Flatten(HeaderWrites(camera_name, start_dt))
                   ls == Lines(docs[p])
               IN  /\ IsPrefix(header, docs[p])
                   /\ {i \in 1..Len(ls) : ls[i] # <<>> /\ ls[i][1] = "#"} = {1}
                   /\ {i \in 1..Len(ls) :
                          ls[i] # <<>> /\ ls[i][1] = "Transcript for camera **"} = {3}
                   /\ \A i \in 1..Len(ls) :
                         IsMarkerLine(ls[i]) => i > Len(Lines(header))

\* A second chunk was merged into a document the first merge had created.
C26_Witness ==
    /\ m.pc = "returned"
    /\ m.ret = "true"
    /\ m.before.exists
    /\ calls = MaxCalls
    /\ Cardinality({i \in 1..Len(Lines(docs[m.path])) :
                       IsMarkerLine(Lines(docs[m.path])[i])}) >= 2

\* C27: a merge_transcript_chunk call whose transcript file does not exist
\* raises FileNotFoundError at once, and neither that call nor anything
\* after it until the next call creates or changes a daily document or
\* leaves a temp file.
C27_MissingFileChangesNothing ==
    [][m'.transcript_file = "missing" =>
          /\ m'.pc = "returned"
          /\ m'.ret = "raised"
          /\ m'.fail = "missing"
          /\ docs' = docs
          /\ tmp' = NoTmp /\ orphans' = orphans]_vars

\* The transcript file was missing in a call for a chunk whose marker the
\* existing document already held, and in a call for a new document.
C27_Witness ==
    /\ m.transcript_file = "missing"
    /\ m.ret = "raised"
    /\ calls = MaxCalls
    /\ \/ m.before.exists /\ m.chunk_id \in MarkersOf(m.before.data)
       \/ ~m.before.exists /\ docs # <<>>

---------------------------------------------------------------------------
(* Structural failures of the transcribe step (SpecRetry).                 *)

\* C23: when run_whisper has failed because the whisper-cli binary or the
\* model file is missing, the failure leaves chunk processing at once: the
\* chunk is not waiting for a retry, attempts nothing further, does not end
\* as a failed chunk of a run that goes on, and the run is not completed.
C23_StructuralFailureAborts ==
    (d.errors # <<>> /\ d.errors[Len(d.errors)] \in StructuralMessages) =>
        /\ d.pc \notin {"sleep", "fetch", "convert", "transcribe"}
        /\ d.sleeps = <<>>
        /\ d.result # "None"
        /\ r.failed_chunks = 0
        /\ r.pc # "done"

---------------------------------------------------------------------------
(* Properties of the footage discovery (SpecDiscover).                     *)

\* Whether some camera reported footage on the i-th day the walk checked.
AnyReport(i) == \E c \in 1..Len(fd.reports[i]) : fd.reports[i][c]

\* The checked days on which some camera reported footage.
DaysReported == {i \in 1..Len(fd.reports) : AnyReport(i)}

\* C28: discover_footage_range checks today, then the day before, and so on,
\* one calendar day at a time; it goes on exactly while some camera reports
\* footage and stops at the first day none does.  With n days of footage
\* before that stop, n < max_days_back, earliest_date is the n-th day
\* checked (None for n = 0), days_with_footage is n and the cap was not
\* reached.
C28_BackwardWalkStopsAtFirstEmptyDay ==
    (fd.pc = "done" /\ fd.cameras # <<>>) =>
        LET n == Cardinality(DaysReported)
        IN  /\ \A i \in 1..Len(fd.dates) : fd.dates[i] = Today - (i - 1) * DayTicks
            /\ \A i \in 1..Len(fd.reports) : Len(fd.reports[i]) = Len(fd.cameras)
            /\ DaysReported = 1..n
            /\ Len(fd.dates) = IF n < fd.max_days_back THEN n + 1 ELSE n
            /\ n < fd.max_days_back =>
                  /\ fd.earliest_date = IF n = 0 THEN NoDate ELSE fd.dates[n]
                  /\ fd.days_with_footage = n
                  /\ fd.days_checked = n
                  /\ ~fd.warned

\* One camera reported footage on each of the 3 most recent days and none on
\* the day before them; the cap was larger.
C28_Witness ==
    /\ fd.pc = "done"
    /\ Len(fd.cameras) = 1
    /\ fd.max_days_back = MaxDaysBack
    /\ fd.reports = << <<TRUE>>, <<TRUE>>, <<TRUE>>, <<FALSE>> >>
    /\ fd.days_with_footage = 3
    /\ fd.earliest_date = Today - 2 * DayTicks
    /\ ~fd.warned

\* C29: every call of discover_footage_range returns, for every camera list
\* and whatever the cameras report; it never checks more than max_days_back
\* days, also when every checked day has footage, and days_with_footage is
\* never more than max_days_back.
C29_WalkIsCapped ==
    /\ [](/\ Len(fd.dates) <= fd.max_days_back
          /\ fd.days_checked <= fd.max_days_back
          /\ fd.days_with_footage <= fd.max_days_back)
    /\ <>(fd.pc = "done")

\* Two cameras, one of them reporting footage on every checked day: the walk
\* ended at the cap.
C29_Witness ==
    /\ fd.pc = "done"
    /\ Len(fd.cameras) = 2
    /\ fd.max_days_back = MaxDaysBack
    /\ Len(fd.dates) = MaxDaysBack
    /\ \A i \in 1..Len(fd.reports) : fd.reports[i][1] # fd.reports[i][2]
    /\ fd.days_with_footage = MaxDaysBack
    /\ fd.warned

---------------------------------------------------------------------------
(* Properties of the attempt loop (SpecRetry).                             *)

\* C31: the backoff base doubles after every failed attempt, whatever the
\* errors were: after j failed attempts of any mix of rate-limit and generic
\* errors the base is initial_backoff * 2^j, a generic failure on the next
\* attempt sleeps min(base, max_backoff), and a rate-limit failure sleeps
\* min(2 * base, max_backoff): its doubling is of its own wait only and is
\* in none of the later waits.
C31_BaseDoublesWhateverTheError ==
    /\ d.pc \in {"fetch", "convert", "transcribe", "sleep"} =>
          d.backoff = r.initial_backoff * 2 ^ Len(d.sleeps)
    /\ \A i \in 1..Len(d.sleeps) :
          d.sleeps[i] = IF IsRateLimit(d.errors[i])
                        THEN Min(2 * BackoffAt(i), r.max_backoff)
                        ELSE Min(BackoffAt(i), r.max_backoff)

\* With initial_backoff 1 and max_backoff 100: a rate-limit failure slept 2,
\* the two generic failures after it slept 2 and 4.
C31_Witness ==
    /\ r.initial_backoff = 1
    /\ r.max_backoff = 100
    /\ Len(d.sleeps) = 3
    /\ IsRateLimit(d.errors[1])
    /\ ~IsRateLimit(d.errors[2])
    /\ ~IsRateLimit(d.errors[3])
    /\ d.sleeps = <<2, 2, 4>>


\* C32: in a download_with_retry call, fetch is called only when no step of
\* the attempt in progress has returned, convert only when exactly fetch has,
\* transcribe only when exactly fetch and convert have, merge only when
\* fetch, convert and transcribe have; a failed step ends its attempt, so
\* the call after a failure is a fetch; merge is called at most once.
C32_StepsInOrder ==
    [][/\ d'.fetches = d.fetches + 1 => d.steps = <<>>
       /\ d'.converts = d.converts + 1 => d.steps = <<"fetch">>
       /\ d'.transcribes = d.transcribes + 1 => d.steps = <<"fetch", "convert">>
       /\ d'.merges = d.merges + 1 =>
             d.steps = <<"fetch", "convert", "transcribe">>
       /\ Len(d'.errors) = Len(d.errors) + 1 => d'.steps = <<>>
       /\ d'.merges <= 1]_vars

\* The first attempt failed in the transcribe step, the second went through
\* fetch, convert and transcribe again and the merge was called.
C32_Witness ==
    /\ d.pc = "merging"
    /\ d.attempt = 1
    /\ Len(d.errors) = 1
    /\ d.fetches = 2
    /\ d.converts = 2
    /\ d.transcribes = 2
    /\ d.merges = 1
    /\ d.steps = <<"fetch", "convert", "transcribe">>


---------------------------------------------------------------------------
(* Properties of the marker line and of the documents a merge touches      *)
(* (SpecMerge).                                                            *)

\* C34: the marker line append_transcript_chunk writes for the identifier of
\* (camera_name, start) is read back by load_processed_chunks as exactly
\* that identifier, for every camera name and start: right after a
\* merge_transcript_chunk call has returned true, the identifier is in the
\* set load_processed_chunks returns and is_chunk_already_processed is true.
C34_MarkerRoundTrip ==
    (m.pc = "returned" /\ m.ret = "true") =>
        /\ ParseMarker(MarkerLineOf(m.chunk_id)) = m.chunk_id
        /\ m.chunk_id \in load_processed_chunks(m.path)
        /\ is_chunk_already_processed(m.camera_name, m.start_dt)

\* C36: whatever the transcript text, a line of the form of a marker
\* included, a successful append adds to the set load_processed_chunks
\* returns for the document exactly the chunk_id it was passed; so the set
\* of a document that only append_transcript_chunk has written is the set of
\* the chunk_ids of its appends.
C36_OnlyAppendedIdsAreProcessed ==
    (m.pc = "returned" /\ m.ret = "true") =>
        load_processed_chunks(m.path) = MarkersOf(m.before.data) \cup {m.chunk_id}

\* C38: a merge_transcript_chunk call changes no document but the one of
\* (camera_name, calendar date of the chunk start), at any of its steps; a
\* call that has returned true has changed that document, and one that has
\* returned false or raised has left it as it was too.
C38_OnlyOwnDocumentChanges ==
    [][LET own == <<DateStr(m'.start_dt), "_">> \o m'.camera_name \o <<".md">>
       IN  /\ \A p \in (DOMAIN docs \cup DOMAIN docs') \ {own} :
                 /\ p \in DOMAIN docs
                 /\ p \in DOMAIN docs'
                 /\ docs'[p] = docs[p]
           /\ m'.pc = "returned" =>
                 IF m'.ret = "true"
                 THEN own \in DOMAIN docs' /\ docs'[own] # m'.before.data
                 ELSE /\ docs' = docs
                      /\ (own \in DOMAIN docs') = m'.before.exists
                      /\ m'.before.exists => docs'[own] = m'.before.data]_vars

\* A chunk was merged into a new document while the document of the same
\* camera for another day existed; that one is as the earlier call left it.
C38_Witness ==
    /\ m.pc = "returned"
    /\ m.ret = "true"
    /\ calls = MaxCalls
    /\ Cardinality(DOMAIN docs) = 2
    /\ \E start_dt \in StartTimes :
          /\ DateStr(start_dt) # DateStr(m.start_dt)
          /\ get_daily_transcript_path(m.camera_name, start_dt) \in DOMAIN docs


---------------------------------------------------------------------------
(* Properties of the runs with a transcripts directory (SpecRun).          *)

\* C35: download_with_retry returns Skipped for a (camera, chunk) only if a
\* section of that camera (by id) and chunk start was merged earlier.  In
\* the first run on an empty transcripts directory every section was merged
\* by that run: a skipped pair was then processed, with a transcript as its
\* result, earlier in the run, also when another camera has the same name.
C35_SkippedOnlyIfMergedBefore ==
    (h.run = 1 /\ d.pc = "returned" /\ d.result = "skipped") =>
        \E i \in 1..Len(h.results) :
            /\ h.order[i] = <<d.camera.id, <<d.start_dt, d.end_dt>>>>
            /\ i < Len(h.order)
            /\ h.results[i] = "path"


\* Every pair of the run has the marker line of its identifier in its
\* daily document.
AllPairsMarked ==
    \A x \in Pairs :
        /\ PairPath(x) \in DOMAIN docs
        /\ MarkerLineCount(docs[PairPath(x)], PairId(x)) > 0

---------------------------------------------------------------------------
(* Properties of the per-camera ranges and of check_footage_exists         *)
(* (SpecDiscover).                                                         *)

\* The checked days on which camera c reported footage.
DaysOf(c) ==
    {i \in 1..Len(fd.reports) : c <= Len(fd.reports[i]) /\ fd.reports[i][c]}

\* C39: the range of every camera has as latest_date the most recent checked
\* day on which the camera had footage and as earliest_date the oldest such
\* day, so earliest_date <= latest_date; a camera with footage on no checked
\* day has None for both; when the call has returned, both dates of a camera
\* lie between the earliest_date and the latest_date of the result.
C39_PerCameraRanges ==
    fd.pc \in {"check", "day", "count", "done"} =>
        \A c \in 1..Len(fd.cameras) :
            LET range == fd.per_camera_ranges[c]
                days == DaysOf(c)
            IN  IF days = {}
                THEN range.earliest_date = NoDate /\ range.latest_date = NoDate
                ELSE /\ \E i \in days :
                           /\ \A j \in days : i <= j
                           /\ range.latest_date = fd.dates[i]
                     /\ \E i \in days :
                           /\ \A j \in days : j <= i
                           /\ range.earliest_date = fd.dates[i]
                     /\ range.earliest_date <= range.latest_date
                     /\ fd.pc = "done" =>
                           /\ fd.earliest_date # NoDate
                           /\ fd.earliest_date <= range.earliest_date
                           /\ range.latest_date <= fd.latest_date

\* Of two cameras one had footage on the three checked days before the stop,
\* the other on the second of them only, and none on the fourth.
C39_Witness ==
    /\ fd.pc = "done"
    /\ Len(fd.cameras) = 2
    /\ fd.reports = << <<TRUE, FALSE>>, <<TRUE, TRUE>>, <<TRUE, FALSE>>,
                       <<FALSE, FALSE>> >>
    /\ fd.per_camera_ranges[1] =
           [earliest_date |-> Today - 2 * DayTicks, latest_date |-> Today]
    /\ fd.per_camera_ranges[2] =
           [earliest_date |-> Today - DayTicks, latest_date |-> Today - DayTicks]

\* What the last check_footage_exists call returned.
LastReport == fd.reports[Len(fd.reports)][Len(fd.reports[Len(fd.reports)])]

\* C40: check_footage_exists returns true exactly when the listing holds the
\* camera, its recording start is not the 'never' value and is earlier than
\* the end of the checked day; a listing without the camera and a listing
\* that raises give false.  A day on which the listing raised for every
\* camera is the last day of the walk: no day before it is checked.
C40_FootageExistsIffStartedBeforeDayEnd ==
    /\ fd.reports # <<>> =>
          LastReport = (/\ fd.listing.status = "listed"
                        /\ fd.listing.recording_start # DateTimeMin
                        /\ fd.listing.recording_start
                               < fd.dates[Len(fd.dates)] + DayTicks)
    /\ (fd.cameras # <<>> /\ fd.errors = Len(fd.cameras)) =>
          /\ fd.pc \in {"day", "count", "done"}
          /\ \A c \in 1..Len(fd.cameras) : ~fd.reports[Len(fd.reports)][c]
          /\ fd.current_date = fd.dates[Len(fd.dates)]
          /\ fd.pc = "done" => fd.days_with_footage = Len(fd.dates) - 1

\* Two days had footage; on the third the listing raised for both cameras
\* and the walk ended there, below the cap.
C40_Witness ==
    /\ fd.pc = "done"
    /\ Len(fd.cameras) = 2
    /\ fd.errors = 2
    /\ fd.listing.status = "raises"
    /\ Len(fd.dates) = 3
    /\ fd.days_with_footage = 2
    /\ fd.max_days_back = MaxDaysBack
    /\ ~fd.warned


---------------------------------------------------------------------------
(* Properties of the ledger scan under read errors (SpecLedger).           *)

\* C33: while reads of a daily document fail, load_processed_chunks returns
\* the empty set for it and is_chunk_already_processed is false for every
\* chunk of it; a download_with_retry call that starts then is not skipped
\* but goes on to fetch the chunk, a merge_transcript_chunk call that starts
\* then goes on to append it, and the step that made the failed scan leaves
\* every document as it was.
C33_ReadErrorMeansNotProcessed ==
    [][/\ \A p \in unreadable_docs' : load_processed_chunks(p)' = {}
       /\ \A camera_name \in CameraNames, start_dt \in StartTimes :
             get_daily_transcript_path(camera_name, start_dt) \in unreadable_docs'
                 => ~is_chunk_already_processed(camera_name, start_dt)'
       /\ (/\ h'.order # h.order
           /\ get_daily_transcript_path(d'.camera.name, d'.start_dt)
                  \in unreadable_docs) =>
             /\ d'.pc = "fetch"
             /\ d'.result # "skipped"
             /\ docs' = docs
       /\ (d'.merges = d.merges + 1 /\ m'.path \in unreadable_docs) =>
             /\ m'.pc = "mkstemp"
             /\ docs' = docs]_vars

\* In a second run the document held the marker of the chunk, its read
\* failed, and the chunk was fetched, transcribed and handed to the merge
\* again.
C33_Witness ==
    /\ h.run = 2
    /\ d.pc = "merging"
    /\ d.marked
    /\ ~d.ledger
    /\ d.fetches = 1
    /\ m.path \in unreadable_docs
    /\ m.before.exists
    /\ MarkerLineCount(m.before.data, m.chunk_id) = 1
    /\ m.pc = "mkstemp"

====
